---- MODULE Spec2Model ----
(***************************************************************************)
(* bevy_observed_utility: the post-order traversal that orders a scoring   *)
(* run, the scoring observers, and the action lifecycle observers, over    *)
(* the world's command queue.                                              *)
(***************************************************************************)
EXTENDS Integers, Sequences, FiniteSets, TLC

\* Number of entities in the world.
NumEntities == 4

\* Scores are fixed-point: the value v stands for v / Scale, so 0..Scale is [0,1].
Scale == 2

\* Number of commands the host (systems, tests) queues in one behaviour.
MaxExternal == 3

Entities == 1..NumEntities

\* Entity::PLACEHOLDER, the target of an untargeted trigger; also "no parent".
PLACEHOLDER == 0

\* Action ComponentIds; NoAction stands for Option::None.
Actions == {"idle", "drink"}
NoAction == "none"

VARIABLES
    children,       \* Children component: entity -> ordered children (<<>> = no component)
    hasScore,       \* set of entities carrying Score
    score,          \* Score.value of each entity (meaningful for hasScore)
    agg,            \* the aggregator component configured on each entity
    policy,         \* the picker policy component of each entity (FirstToScore, ...)
    hasT,           \* set of entities carrying the component T of score_ancestor
    marker,         \* set of entities carrying the ScoreMarker of score_ancestor
    cache,          \* AncestorQuery.cache: start -> cached ancestor (PLACEHOLDER: no entry)
    lookup,         \* the last AncestorQuery::get: its start and what it found
    queue,          \* DFSPostTraversal.queue: Local<VecDeque<(usize, Entity)>>
    iter,           \* the live DFSPostTraversalIter: visited, current_depth
    sorted,         \* entities the live iterator has yielded so far, in order
    cmds,           \* the world's command queue
    picker,         \* Picker component of each entity (has = FALSE: none)
    currentAction,  \* CurrentAction component of each entity (NoAction: none)
    log,            \* commands applied so far, in order of application
    run,            \* the RunScoring request handled last: its target and roots
    scored,         \* targets of the OnScore triggers delivered since that request
    externals,      \* number of commands queued by the host so far
    flushing,       \* TRUE while World::flush is applying the command queue
    components,     \* aggregator and picker components each entity carries, by kind
    resources,      \* the ...ObserverSpawned resources present in the world
    observers,      \* number of observers installed for each kind
    settings        \* the other fields of each entity's scoring components

vars == <<children, hasScore, score, agg, policy, hasT, marker, cache, lookup,
          queue, iter, sorted, cmds,
          picker, currentAction, log, run, scored, externals, flushing,
          components, resources, observers, settings>>

regVars == <<components, resources, observers>>
treeVars == <<children, hasScore, agg, policy, hasT, marker, cache, lookup, regVars,
              settings>>
actVars == <<picker, currentAction>>
iterVars == <<queue, iter, sorted>>

----------------------------------------------------------------------------
(* Hierarchy *)

\* Parent component, read off the Children components.
ParentOf(ch, e) ==
    IF \E p \in Entities : \E k \in 1..Len(ch[p]) : ch[p][k] = e
    THEN CHOOSE p \in Entities : \E k \in 1..Len(ch[p]) : ch[p][k] = e
    ELSE PLACEHOLDER

RECURSIVE SortedSeq(_)
\* The elements of a set of entities in ascending order.
SortedSeq(S) ==
    IF S = {} THEN <<>>
    ELSE LET m == CHOOSE x \in S : \A y \in S : x <= y
         IN <<m>> \o SortedSeq(S \ {m})

\* The Children components of the forest in which p[e] is the parent of e.
ChildrenOfParents(p) ==
    [e \in Entities |-> SortedSeq({c \in Entities : p[c] = e})]

RECURSIVE PathToRoot(_, _)
\* e and its ancestors under the parent function p (PLACEHOLDER included).
PathToRoot(p, e) ==
    IF e = PLACEHOLDER THEN {PLACEHOLDER} ELSE {e} \cup PathToRoot(p, p[e])

\* Finite acyclic hierarchies with ordered children. Entity ids are opaque, so
\* each ordered forest is taken once, with its entities numbered in pre-order:
\* the parent of e is the entity before it, or one of that entity's ancestors,
\* or none.
Forests ==
    {ChildrenOfParents(p) :
        p \in {f \in [Entities -> {PLACEHOLDER} \cup Entities] :
                  \A e \in Entities :
                      /\ f[e] < e
                      /\ e > 1 => f[e] \in PathToRoot(f, e - 1)}}

----------------------------------------------------------------------------
(* DFSPostTraversal<With<Score>>  (ecs.rs) *)

\* self.param.children.get(entity): Query<&Children, With<Score>>
ChildrenGet(e) ==
    IF e \in hasScore /\ children[e] # <<>>
    THEN [ok |-> TRUE, kids |-> children[e]]
    ELSE [ok |-> FALSE, kids |-> <<>>]

\* DFSPostTraversalIter::new that does not clear the queue.
IterNewNoClear(root) ==
    [queue |-> Append(queue, <<0, root>>), visited |-> 0, current_depth |-> 0]

\* DFSPostTraversalIter::new
IterNew(root) == [queue |-> << <<0, root>> >>, visited |-> 0, current_depth |-> 0]

RECURSIVE ExpandBranch(_)
\* The loop of DFSPostTraversalIter::next: "exhaust all children for the first branch".
ExpandBranch(st) ==
    LET i == st.visited IN
    IF i >= Len(st.queue) THEN st
    ELSE
      LET depth == st.queue[i + 1][1]
          entity == st.queue[i + 1][2]
      IN
      IF st.current_depth > depth THEN st
      ELSE
        LET got == ChildrenGet(entity)
            kids == [j \in 1..Len(got.kids) |-> <<depth + 1, got.kids[j]>>]
            stepped == [st EXCEPT !.visited = i + 1, !.current_depth = depth]
        IN
        IF ~got.ok THEN stepped
        ELSE ExpandBranch([stepped EXCEPT !.queue =
                 SubSeq(st.queue, 1, i + 1) \o kids
                    \o SubSeq(st.queue, i + 2, Len(st.queue))])

RECURSIVE QueueInserts(_)
\* The calls self.param.queue.insert(i + j + 1, ..) one call of next makes,
\* each as the pair of its index and the length of the queue at the call.
QueueInserts(st) ==
    LET i == st.visited IN
    IF i >= Len(st.queue) THEN {}
    ELSE
      LET depth == st.queue[i + 1][1]
          entity == st.queue[i + 1][2]
      IN
      IF st.current_depth > depth THEN {}
      ELSE
        LET got == ChildrenGet(entity)
            kids == [j \in 1..Len(got.kids) |-> <<depth + 1, got.kids[j]>>]
        IN
        IF ~got.ok THEN {}
        ELSE {<<i + j + 1, Len(st.queue) + j>> : j \in 0..(Len(got.kids) - 1)}
             \cup QueueInserts([queue |-> SubSeq(st.queue, 1, i + 1) \o kids
                                            \o SubSeq(st.queue, i + 2, Len(st.queue)),
                                visited |-> i + 1,
                                current_depth |-> depth])

\* VecDeque::remove(index) on a 0-based index
RemoveAt(q, index) == SubSeq(q, 1, index) \o SubSeq(q, index + 2, Len(q))

\* IterNext with the entry taken from the front of the queue.
IterNextFront(st) ==
    IF st.queue = <<>> THEN [st |-> st, item |-> PLACEHOLDER]
    ELSE
      LET ex == ExpandBranch(st) IN
      [st |-> [queue |-> RemoveAt(ex.queue, 0),
               visited |-> IF ex.visited > 0 THEN ex.visited - 1 ELSE 0,
               current_depth |-> ex.queue[1][1]],
       item |-> ex.queue[1][2]]

\* IterNext that leaves the cursor where it is when it removes an entry.
IterNextKeepVisited(st) ==
    IF st.queue = <<>> THEN [st |-> st, item |-> PLACEHOLDER]
    ELSE
      LET ex == ExpandBranch(st)
          index == ex.visited - 1
      IN
      IF index < 0 \/ index >= Len(ex.queue)
      THEN [st |-> ex, item |-> PLACEHOLDER]
      ELSE [st |-> [queue |-> RemoveAt(ex.queue, index),
                    visited |-> ex.visited,
                    current_depth |-> ex.queue[index + 1][1]],
            item |-> ex.queue[index + 1][2]]

\* DFSPostTraversalIter::next: the iterator state after the call and the item
\* returned (PLACEHOLDER stands for None).
IterNext(st) ==
    IF st.queue = <<>> THEN [st |-> st, item |-> PLACEHOLDER]
    ELSE
      LET ex == ExpandBranch(st)
          index == ex.visited - 1
      IN
      IF index < 0 \/ index >= Len(ex.queue)
      THEN [st |-> ex, item |-> PLACEHOLDER]
      ELSE [st |-> [queue |-> RemoveAt(ex.queue, index),
                    visited |-> ex.visited - 1,
                    current_depth |-> ex.queue[index + 1][1]],
            item |-> ex.queue[index + 1][2]]

RECURSIVE Drain(_, _)
\* `for entity in sorted`: call next until it returns None.
Drain(st, out) ==
    LET r == IterNext(st) IN
    IF r.item = PLACEHOLDER THEN [st |-> r.st, out |-> out]
    ELSE Drain(r.st, Append(out, r.item))

\* The entities dfs.iter(root) yields, in order.
IterAll(root) == Drain(IterNew(root), <<>>).out

----------------------------------------------------------------------------
NoAgg == [kind |-> "None", param |-> 0]
NoLookup == [start |-> PLACEHOLDER, found |-> PLACEHOLDER, evicted |-> FALSE]

\* The component kinds that install an observer through commands.once():
\* the eight aggregators and the three picker policies.
Kinds == {"FixedScore", "Sum", "AllOrNothing", "Product", "Winning", "Measured",
          "Evaluated", "RandomScore", "FirstToScore", "Highest", "PickRandom"}

\* The fields of the scoring components besides kind and threshold, at their
\* defaults: Product.use_compensation, Measured.measure, Evaluated.evaluator
\* with the range lo..hi of its from_range constructor (also the range of a
\* RandomScore), and whether the entity carries a Weighted, with its weight.
NoSettings ==
    [use_compensation |-> FALSE, measure |-> "None", evaluator |-> "None",
     lo |-> 0, hi |-> Scale, weighted |-> FALSE, weight |-> Scale]

\* No component hook has run: no ...ObserverSpawned resource and no observer;
\* every scoring component has its default settings.
NoRegistry ==
    /\ components = [e \in Entities |-> {}]
    /\ resources = {}
    /\ observers = [k \in Kinds |-> 0]
    /\ settings = [e \in Entities |-> NoSettings]

\* No entity carries T or the marker, and no lookup has been made.
NoAncestry ==
    /\ hasT = {}
    /\ marker = {}
    /\ cache = [e \in Entities |-> PLACEHOLDER]
    /\ lookup = NoLookup

NoPolicy == [kind |-> "None", threshold |-> 0]
NoPicker == [has |-> FALSE, default |-> NoAction, choices |-> {}, picked |-> NoAction]
NoIter ==
    [active |-> FALSE, visited |-> 0, current_depth |-> 0,
     root |-> PLACEHOLDER, restarted |-> FALSE]
NoRun == [handled |-> FALSE, target |-> PLACEHOLDER, roots |-> <<>>]

\* A world with no components on any entity and an empty command queue.
Blank ==
    /\ score = [e \in Entities |-> 0]
    /\ agg = [e \in Entities |-> NoAgg]
    /\ policy = [e \in Entities |-> NoPolicy]
    /\ NoAncestry
    /\ NoRegistry
    /\ queue = <<>>
    /\ iter = NoIter
    /\ sorted = <<>>
    /\ cmds = <<>>
    /\ picker = [e \in Entities |-> NoPicker]
    /\ currentAction = [e \in Entities |-> NoAction]
    /\ log = <<>>
    /\ run = NoRun
    /\ scored = <<>>
    /\ externals = 0
    /\ flushing = FALSE

(* Stepping one iterator by hand *)

InitDfs ==
    /\ children \in Forests
    /\ hasScore \in SUBSET Entities
    /\ Blank

\* dfs.iter(root): also abandons whatever iterator was live before. The
\* iterator remembers its root, and whether the call abandoned part-way an
\* iterator of another root.
DfsIter ==
    \E root \in Entities :
        /\ queue' = IterNew(root).queue
        /\ iter' = [active |-> TRUE, visited |-> 0, current_depth |-> 0,
                    root |-> root,
                    restarted |-> /\ iter.active
                                  /\ sorted # <<>>
                                  /\ queue # <<>>
                                  /\ iter.root # root]
        /\ sorted' = <<>>
        /\ UNCHANGED <<treeVars, score, cmds, actVars, log, run, scored, externals, flushing>>

\* sorted.next()
DfsNext ==
    /\ iter.active
    /\ LET r == IterNext([queue |-> queue, visited |-> iter.visited,
                          current_depth |-> iter.current_depth])
       IN /\ queue' = r.st.queue
          /\ iter' = [iter EXCEPT !.active = r.item # PLACEHOLDER,
                                   !.visited = r.st.visited,
                                   !.current_depth = r.st.current_depth]
          /\ sorted' = IF r.item = PLACEHOLDER THEN sorted ELSE Append(sorted, r.item)
    /\ UNCHANGED <<treeVars, score, cmds, actVars, log, run, scored, externals, flushing>>

NextDfs == DfsIter \/ DfsNext

SpecDfs == InitDfs /\ [][NextDfs]_vars

----------------------------------------------------------------------------
(* Commands and triggers *)

\* A queued command: a trigger of an event at a target, or a component insert.
Cmd(type, entity, action, reason) ==
    [type |-> type, entity |-> entity, action |-> action, reason |-> reason]

\* The record of a command being applied: the command, and the target's
\* CurrentAction and Picker.picked as they were when it was applied.
Applied(cmd) ==
    [type |-> cmd.type, entity |-> cmd.entity, action |-> cmd.action,
     reason |-> cmd.reason,
     cur |-> IF cmd.entity \in Entities THEN currentAction[cmd.entity] ELSE NoAction,
     picked |-> IF cmd.entity \in Entities THEN picker[cmd.entity].picked ELSE NoAction]

\* commands.trigger_targets(OnScore, entity)
OnScoreCmd(e) == Cmd("OnScore", e, NoAction, "-")

\* A flush that leaves what a command queued behind the commands already
\* waiting.
FlushedLast(queued, rest) == rest \o queued

\* World::flush applies the queue front to back, and flushes the commands a
\* command queued (through its observers) right after that command, before
\* the commands that were behind it.
Flushed(queued, rest) == queued \o rest

\* commands.trigger / trigger_targets called by a system or a test: the command
\* waits behind everything already queued.
Queued(cmd) == Append(cmds, cmd)

----------------------------------------------------------------------------
(* Scoring  (scoring.rs, scoring/fixed.rs, scoring/sum.rs) *)

\* Score::new, Score::set: value.clamp(0., 1.)
Clamp(v) == IF v < 0 THEN 0 ELSE IF v > Scale THEN Scale ELSE v

RECURSIVE SumScores(_, _)
\* scores.iter_many(children) summed: children without Score are skipped.
SumScores(kids, sc) ==
    IF kids = <<>> THEN 0
    ELSE (IF Head(kids) \in hasScore THEN sc[Head(kids)] ELSE 0)
            + SumScores(Tail(kids), sc)

\* FixedScore::observer
FixedObserver(e, sc) ==
    IF e \in hasScore THEN [sc EXCEPT ![e] = agg[e].param] ELSE sc

\* Sum::observer zeroing a sum that only equals the threshold.
SumObserverStrict(e, sc) ==
    IF children[e] = <<>> THEN sc
    ELSE LET sum == SumScores(children[e], sc)
             kept == IF sum <= agg[e].param THEN 0 ELSE sum
         IN IF e \in hasScore THEN [sc EXCEPT ![e] = Clamp(kept)] ELSE sc

\* Sum::observer
SumObserver(e, sc) ==
    IF children[e] = <<>> THEN sc
    ELSE LET sum == SumScores(children[e], sc)
             kept == IF sum < agg[e].param THEN 0 ELSE sum
         IN IF e \in hasScore THEN [sc EXCEPT ![e] = Clamp(kept)] ELSE sc

\* The f32 value NaN; every other f32 the model uses is an integer number of
\* 1/Scale steps that lies above this one.
NaN == 0 - (Scale * Scale + 1)

\* Score::new and Score::set on any f32: f32::clamp returns NaN for NaN.
ScoreSet(v) == IF v = NaN THEN NaN ELSE Clamp(v)

\* The children of e that carry a Score, in child order: what
\* scores.iter_many(children) visits.
ScoringChildren(e) == SelectSeq(children[e], LAMBDA c : c \in hasScore)

RECURSIVE Power(_, _)
\* b to the n-th power.
Power(b, n) == IF n = 0 THEN 1 ELSE b * Power(b, n - 1)

RECURSIVE AllOrNothingLoopNoBreak(_, _, _, _)
\* The loop of AllOrNothing::observer resetting the sum at a child below the
\* threshold but going on with that child and the ones after it.
AllOrNothingLoopNoBreak(kids, sc, threshold, sum) ==
    IF kids = <<>> THEN sum
    ELSE IF sc[Head(kids)] < threshold
         THEN AllOrNothingLoopNoBreak(Tail(kids), sc, threshold, sc[Head(kids)])
    ELSE AllOrNothingLoopNoBreak(Tail(kids), sc, threshold, sum + sc[Head(kids)])

RECURSIVE AllOrNothingLoop(_, _, _, _)
\* The loop of AllOrNothing::observer: the sum of the scoring children's
\* Scores, reset to 0 at the first one below the threshold.
AllOrNothingLoop(kids, sc, threshold, sum) ==
    IF kids = <<>> THEN sum
    ELSE IF sc[Head(kids)] < threshold THEN 0
    ELSE AllOrNothingLoop(Tail(kids), sc, threshold, sum + sc[Head(kids)])

\* AllOrNothing::observer
AllOrNothingObserver(e, sc) ==
    IF children[e] = <<>> THEN sc
    ELSE LET sum == AllOrNothingLoop(ScoringChildren(e), sc, agg[e].param, 0)
         IN IF e \in hasScore THEN [sc EXCEPT ![e] = ScoreSet(sum)] ELSE sc

RECURSIVE ProductOf(_, _)
\* The product of the Scores of a sequence of entities, in units of
\* 1 / Scale^Len(kids).
ProductOf(kids, sc) ==
    IF kids = <<>> THEN 1 ELSE sc[Head(kids)] * ProductOf(Tail(kids), sc)

\* ProductKept without the compensation step.
ProductKeptNoCompensation(e, sc) ==
    LET kids == ScoringChildren(e)
        d == Power(Scale, Len(kids))
        p == ProductOf(kids, sc)
    IN IF p * Scale < agg[e].param * d THEN [num |-> 0, den |-> 1]
       ELSE [num |-> p, den |-> d]

\* The local product of Product::observer when it is handed to Score::set,
\* as the exact fraction num / den: the product p of the scoring children's
\* Scores, with compensation p + (1 - p) * (1 - 1/n) * p, then 0 if that is
\* below the threshold.
ProductKept(e, sc) ==
    LET kids == ScoringChildren(e)
        n == Len(kids)
        d == Power(Scale, n)
        p == ProductOf(kids, sc)
        compensate == settings[e].use_compensation /\ n > 0
        num == IF compensate THEN p * (n * d + (d - p) * (n - 1)) ELSE p
        den == IF compensate THEN n * d * d ELSE d
    IN IF num * Scale < agg[e].param * den THEN [num |-> 0, den |-> 1]
       ELSE [num |-> num, den |-> den]

\* Product::observer; the Score stored is the fraction rounded down to a
\* multiple of 1/Scale.
ProductObserver(e, sc) ==
    IF children[e] = <<>> THEN sc
    ELSE LET kept == ProductKept(e, sc)
         IN IF e \in hasScore
            THEN [sc EXCEPT ![e] = ScoreSet((kept.num * Scale) \div kept.den)]
            ELSE sc

RECURSIVE MaxScore(_, _, _)
\* The loop of Winning::observer: the greatest Score, starting from max.
MaxScore(kids, sc, max) ==
    IF kids = <<>> THEN max
    ELSE MaxScore(Tail(kids), sc, IF sc[Head(kids)] > max THEN sc[Head(kids)] ELSE max)

\* Winning::observer
WinningObserver(e, sc) ==
    IF children[e] = <<>> THEN sc
    ELSE LET max == MaxScore(ScoringChildren(e), sc, 0)
             kept == IF max < agg[e].param THEN 0 ELSE max
         IN IF e \in hasScore THEN [sc EXCEPT ![e] = ScoreSet(kept)] ELSE sc

\* WeightOf with Weighted::MIN for a child without Weighted.
WeightOfAbsentMin(c) == IF settings[c].weighted THEN settings[c].weight ELSE 0

\* inputs.push((child_score, weighted.unwrap_or(&Weighted::MAX))): the
\* weight a Measured parent pairs with the Score of child c.
WeightOf(c) == IF settings[c].weighted THEN settings[c].weight ELSE Scale

RECURSIVE WeightedSumOf(_, _)
\* WeightedSum: the sum of score * weight, in units of 1 / Scale^2.
WeightedSumOf(kids, sc) ==
    IF kids = <<>> THEN 0
    ELSE sc[Head(kids)] * WeightOf(Head(kids)) + WeightedSumOf(Tail(kids), sc)

RECURSIVE WeightedProductOf(_, _)
\* WeightedProduct: the product of score * weight, in units of
\* 1 / Scale^(2 * Len(kids)).
WeightedProductOf(kids, sc) ==
    IF kids = <<>> THEN 1
    ELSE sc[Head(kids)] * WeightOf(Head(kids)) * WeightedProductOf(Tail(kids), sc)

RECURSIVE WeightedMaxOf(_, _, _)
\* WeightedMax: the greatest score * weight, folded from best.
WeightedMaxOf(kids, sc, best) ==
    IF kids = <<>> THEN best
    ELSE LET v == sc[Head(kids)] * WeightOf(Head(kids))
         IN WeightedMaxOf(Tail(kids), sc, IF v > best THEN v ELSE best)

RECURSIVE WeightSum(_)
\* The sum of the weights of the inputs.
WeightSum(kids) ==
    IF kids = <<>> THEN 0 ELSE WeightOf(Head(kids)) + WeightSum(Tail(kids))

RECURSIVE WeightedSquares(_, _)
\* The sum of weight * score^2 of the inputs.
WeightedSquares(kids, sc) ==
    IF kids = <<>> THEN 0
    ELSE WeightOf(Head(kids)) * sc[Head(kids)] * sc[Head(kids)]
            + WeightedSquares(Tail(kids), sc)

\* Measure::calculate of the four provided measures; each result goes
\* through Score::new, rounded down to a multiple of 1/Scale.
Calculate(measure, kids, sc) ==
    CASE measure = "WeightedSum" -> ScoreSet(WeightedSumOf(kids, sc) \div Scale)
      [] measure = "WeightedProduct" ->
            ScoreSet((WeightedProductOf(kids, sc) * Scale)
                        \div Power(Scale, 2 * Len(kids)))
      [] measure = "WeightedMax" -> ScoreSet(WeightedMaxOf(kids, sc, 0) \div Scale)
      [] measure = "WeightedRMS" ->
            IF WeightSum(kids) = 0 THEN 0
            ELSE ScoreSet(CHOOSE r \in 0..Scale :
                    /\ r * r * WeightSum(kids) <= WeightedSquares(kids, sc)
                    /\ \/ r = Scale
                       \/ (r + 1) * (r + 1) * WeightSum(kids) > WeightedSquares(kids, sc))

\* Measured::observer
MeasuredObserver(e, sc) ==
    IF children[e] = <<>> THEN sc
    ELSE LET result == Calculate(settings[e].measure, ScoringChildren(e), sc)
         IN IF e \in hasScore THEN [sc EXCEPT ![e] = result] ELSE sc

\* Evaluator::evaluate of LinearEvaluator::from_range(lo, hi) and of
\* PowerEvaluator::from_range(2., lo, hi), on the value v. With lo = hi the
\* slope 1 / (hi - lo) is infinite: the line gives 0 * inf = NaN at v = lo,
\* and the power curve gives (0 / 0)^2 = NaN.
Evaluate(evaluator, lo, hi, v) ==
    CASE evaluator = "Linear" ->
            IF hi = lo
            THEN (IF v = lo THEN NaN ELSE IF v > lo THEN Scale ELSE 0)
            ELSE IF hi > lo THEN Clamp(((v - lo) * Scale) \div (hi - lo))
            ELSE Clamp(((lo - v) * Scale) \div (lo - hi))
      [] evaluator = "Power" ->
            IF hi = lo THEN NaN
            ELSE LET cx == IF v < lo THEN lo ELSE IF v > hi THEN hi ELSE v
                 IN ((cx - lo) * (cx - lo) * Scale) \div ((hi - lo) * (hi - lo))

\* Evaluated::observer: scores exactly one child that carries a Score.
EvaluatedObserver(e, sc) ==
    IF Len(children[e]) # 1 THEN sc
    ELSE IF children[e][1] \notin hasScore THEN sc
    ELSE LET value == Evaluate(settings[e].evaluator, settings[e].lo, settings[e].hi,
                               sc[children[e][1]])
         IN IF e \in hasScore THEN [sc EXCEPT ![e] = ScoreSet(value)] ELSE sc

\* value.clamp(self.a.x, self.bx) in PowerEvaluator::evaluate: f32::clamp
\* panics when its lower bound is above its upper bound.
EvaluatePanics(evaluator, lo, hi) == evaluator = "Power" /\ lo > hi

\* Evaluated::observer calls the evaluator, which panics, before it looks up
\* the Score of its own entity.
ObserverPanics(e) ==
    /\ agg[e].kind = "Evaluated"
    /\ Len(children[e]) = 1
    /\ children[e][1] \in hasScore
    /\ EvaluatePanics(settings[e].evaluator, settings[e].lo, settings[e].hi)

\* The mark a panic leaves at the head of the command queue: the flush never
\* returns, and nothing is applied after it.
PanicCmd(e) == Cmd("Panic", e, NoAction, "-")

\* RandomScore::observer: every Score gen_range(lo..=hi) can produce.
RandomScoreOutcomes(e, sc) ==
    IF e \in hasScore
    THEN {[sc EXCEPT ![e] = ScoreSet(v)] : v \in settings[e].lo..settings[e].hi}
    ELSE {sc}

\* The scores after the observers of OnScore have run for target e.
ScoreObservers(e, sc) ==
    CASE agg[e].kind = "Fixed" -> FixedObserver(e, sc)
      [] agg[e].kind = "Sum" -> SumObserver(e, sc)
      [] agg[e].kind = "AllOrNothing" -> AllOrNothingObserver(e, sc)
      [] agg[e].kind = "Product" -> ProductObserver(e, sc)
      [] agg[e].kind = "Winning" -> WinningObserver(e, sc)
      [] agg[e].kind = "Measured" -> MeasuredObserver(e, sc)
      [] agg[e].kind = "Evaluated" -> EvaluatedObserver(e, sc)
      [] OTHER -> sc

\* Every outcome of the observers of OnScore for target e: one, except for
\* a RandomScore.
ScoreOutcomes(e, sc) ==
    IF agg[e].kind = "Random" THEN RandomScoreOutcomes(e, sc)
    ELSE {ScoreObservers(e, sc)}

RECURSIVE OnScoreCmds(_)
\* One OnScore trigger per entity of a sequence, in order.
OnScoreCmds(es) ==
    IF es = <<>> THEN <<>> ELSE <<OnScoreCmd(Head(es))>> \o OnScoreCmds(Tail(es))

RECURSIVE Reversed(_)
Reversed(es) == IF es = <<>> THEN <<>> ELSE Append(Reversed(Tail(es)), Head(es))

RECURSIVE TriggerInOrderParentsFirst(_)
\* TriggerInOrder with each root's entities triggered in reverse.
TriggerInOrderParentsFirst(roots) ==
    IF roots = <<>> THEN <<>>
    ELSE OnScoreCmds(Reversed(IterAll(Head(roots))))
            \o TriggerInOrderParentsFirst(Tail(roots))

RECURSIVE TriggerInOrder(_)
\* trigger_in_order for each root of a sequence of roots: the OnScore
\* triggers queued, in order.
TriggerInOrder(roots) ==
    IF roots = <<>> THEN <<>>
    ELSE OnScoreCmds(IterAll(Head(roots))) \o TriggerInOrder(Tail(roots))

\* ScoreableRoots without the filter on the parent.
ScoreableRootsUnfiltered == hasScore

\* ScoreableRoots that keeps the Score entities without a parent only.
ScoreableRootsParentless == {e \in hasScore : ParentOf(children, e) = PLACEHOLDER}

\* The roots of an untargeted run: Score entities without a parent or whose
\* parent has no Score.
ScoreableRoots ==
    {e \in hasScore : ParentOf(children, e) = PLACEHOLDER
                        \/ ParentOf(children, e) \notin hasScore}

RECURSIVE Orders(_)
\* All orders in which a query may iterate a set of entities.
Orders(S) ==
    IF S = {} THEN {<<>>}
    ELSE UNION {{<<x>> \o o : o \in Orders(S \ {x})} : x \in S}

\* Configurations of a scoring tree: spawned with Score::default().
ScoreConfigs == {"NoScore", "Fixed", "Sum"}

InitScoring ==
    /\ children \in Forests
    /\ \E cfg \in [Entities -> ScoreConfigs] :
         /\ hasScore = {e \in Entities : cfg[e] # "NoScore"}
         /\ agg = [e \in Entities |->
                     CASE cfg[e] = "Fixed" -> [kind |-> "Fixed", param |-> Scale - 1]
                       [] cfg[e] = "Sum" -> [kind |-> "Sum", param |-> 1]
                       [] OTHER -> NoAgg]
    /\ score = [e \in Entities |-> 0]
    /\ policy = [e \in Entities |-> NoPolicy]
    /\ NoAncestry
    /\ NoRegistry
    /\ queue = <<>>
    /\ iter = NoIter
    /\ sorted = <<>>
    /\ cmds = <<>>
    /\ picker = [e \in Entities |-> NoPicker]
    /\ currentAction = [e \in Entities |-> NoAction]
    /\ log = <<>>
    /\ run = NoRun
    /\ scored = <<>>
    /\ externals = 0
    /\ flushing = FALSE

\* A system or test triggers RunScoring, targeted at an entity or untargeted,
\* once the world has flushed what was queued before.
TriggerRunScoring ==
    \E target \in Entities \cup {PLACEHOLDER} :
        /\ cmds = <<>>
        /\ cmds' = Queued(Cmd("RunScoring", target, NoAction, "-"))
        /\ UNCHANGED <<treeVars, score, iterVars, actVars, log, run, scored, externals, flushing>>

RECURSIVE ScoringRootOf(_)
\* The topmost entity reached from e through parents that carry Score.
ScoringRootOf(e) ==
    LET parent == ParentOf(children, e)
    IN IF parent # PLACEHOLDER /\ parent \in hasScore THEN ScoringRootOf(parent) ELSE e

\* The targeted branch starting from the scoring root above the target.
RunScoringTargetedFromRoot ==
    /\ cmds # <<>>
    /\ Head(cmds).type = "RunScoring"
    /\ Head(cmds).entity # PLACEHOLDER
    /\ LET roots == <<ScoringRootOf(Head(cmds).entity)>> IN
         /\ cmds' = Flushed(TriggerInOrder(roots), Tail(cmds))
         /\ run' = [handled |-> TRUE, target |-> Head(cmds).entity, roots |-> roots]
    /\ scored' = <<>>
    /\ UNCHANGED <<treeVars, score, iterVars, actVars, log, externals, flushing>>

\* ScoringPlugin::run_scoring_post_order_dfs, targeted branch
RunScoringTargeted ==
    /\ cmds # <<>>
    /\ Head(cmds).type = "RunScoring"
    /\ Head(cmds).entity # PLACEHOLDER
    /\ LET roots == <<Head(cmds).entity>> IN
         /\ cmds' = Flushed(TriggerInOrder(roots), Tail(cmds))
         /\ run' = [handled |-> TRUE, target |-> Head(cmds).entity, roots |-> roots]
    /\ scored' = <<>>
    /\ UNCHANGED <<treeVars, score, iterVars, actVars, log, externals, flushing>>

\* ScoringPlugin::run_scoring_post_order_dfs, global branch
RunScoringGlobal ==
    /\ cmds # <<>>
    /\ Head(cmds).type = "RunScoring"
    /\ Head(cmds).entity = PLACEHOLDER
    /\ \E roots \in Orders(ScoreableRoots) :
         /\ cmds' = Flushed(TriggerInOrder(roots), Tail(cmds))
         /\ run' = [handled |-> TRUE, target |-> PLACEHOLDER, roots |-> roots]
    /\ scored' = <<>>
    /\ UNCHANGED <<treeVars, score, iterVars, actVars, log, externals, flushing>>

\* An OnScore trigger is delivered: the aggregator observers run.
DeliverOnScore ==
    /\ cmds # <<>>
    /\ Head(cmds).type = "OnScore"
    /\ IF ObserverPanics(Head(cmds).entity)
       THEN /\ score' = score
            /\ cmds' = <<PanicCmd(Head(cmds).entity)>> \o Tail(cmds)
       ELSE /\ score' \in ScoreOutcomes(Head(cmds).entity, score)
            /\ cmds' = Flushed(<<>>, Tail(cmds))
    /\ scored' = Append(scored, Head(cmds).entity)
    /\ UNCHANGED <<treeVars, iterVars, actVars, log, run, externals, flushing>>

NextScoring ==
    \/ TriggerRunScoring
    \/ RunScoringTargeted
    \/ RunScoringGlobal
    \/ DeliverOnScore

SpecScoring == InitScoring /\ [][NextScoring]_vars

----------------------------------------------------------------------------
(* Picker  (picking.rs) *)

\* Picker::new(default).with(score_entity, action)...
PickerNew(default, choices) ==
    [has |-> TRUE, default |-> default, choices |-> choices, picked |-> default]

\* self.choices.get(&entity): choices is a set of <<score entity, action>>
\* pairs with unique keys.
ChoiceOf(p, score_entity) ==
    IF \E c \in p.choices : c[1] = score_entity
    THEN (CHOOSE c \in p.choices : c[1] = score_entity)[2]
    ELSE NoAction

\* Pick without the fallback to the default.
PickNoDefault(p, score_entity) ==
    [p EXCEPT !.picked = IF score_entity = PLACEHOLDER THEN NoAction
                         ELSE ChoiceOf(p, score_entity)]

\* Picker::pick(score_entity): the picker afterwards (PLACEHOLDER stands for None).
Pick(p, score_entity) ==
    LET chosen == IF score_entity = PLACEHOLDER THEN NoAction
                  ELSE ChoiceOf(p, score_entity)
    IN [p EXCEPT !.picked = IF chosen = NoAction THEN p.default ELSE chosen]

----------------------------------------------------------------------------
(* Acting  (acting.rs) *)

\* The entities the host addresses lifecycle events to.
Actors == {1}

\* The score entity the pickers of the lifecycle runs map to an action.
Scorer == NumEntities

\* OnRequestCancelAndInitiate with the new action initiated before the old
\* one is cancelled.
OnRequestInitiateThenCancel(actor, requested) ==
    IF actor \notin Entities \/ ~picker[actor].has THEN <<>>
    ELSE
      LET current_action == currentAction[actor]
          next_action == IF requested # NoAction THEN requested
                         ELSE picker[actor].picked
      IN
      IF current_action # NoAction /\ next_action = current_action THEN <<>>
      ELSE
        <<Cmd("InsertCurrentAction", actor, next_action, "-"),
          Cmd("OnActionInitiated", actor, next_action, "-")>>
        \o (IF current_action # NoAction
            THEN <<Cmd("OnActionEnded", actor, current_action, "Cancelled")>>
            ELSE <<>>)

\* OnRequestCancelAndInitiate without the cancellation of the current action.
OnRequestInitiateOnly(actor, requested) ==
    IF actor \notin Entities \/ ~picker[actor].has THEN <<>>
    ELSE
      LET current_action == currentAction[actor]
          next_action == IF requested # NoAction THEN requested
                         ELSE picker[actor].picked
      IN
      IF current_action # NoAction /\ next_action = current_action THEN <<>>
      ELSE <<Cmd("InsertCurrentAction", actor, next_action, "-"),
             Cmd("OnActionInitiated", actor, next_action, "-")>>

\* OnRequestCancelAndInitiate with the explicit action ignored.
OnRequestPickedOnly(actor, requested) ==
    IF actor \notin Entities \/ ~picker[actor].has THEN <<>>
    ELSE
      LET current_action == currentAction[actor]
          next_action == picker[actor].picked
      IN
      IF current_action # NoAction /\ next_action = current_action THEN <<>>
      ELSE
        (IF current_action # NoAction
         THEN <<Cmd("OnActionEnded", actor, current_action, "Cancelled")>>
         ELSE <<>>)
        \o <<Cmd("InsertCurrentAction", actor, next_action, "-"),
              Cmd("OnActionInitiated", actor, next_action, "-")>>

\* OnRequestCancelAndInitiate without the early return on the same action.
OnRequestAlwaysSwitch(actor, requested) ==
    IF actor \notin Entities \/ ~picker[actor].has THEN <<>>
    ELSE
      LET current_action == currentAction[actor]
          next_action == IF requested # NoAction THEN requested
                         ELSE picker[actor].picked
      IN
        (IF current_action # NoAction
         THEN <<Cmd("OnActionEnded", actor, current_action, "Cancelled")>>
         ELSE <<>>)
        \o <<Cmd("InsertCurrentAction", actor, next_action, "-"),
              Cmd("OnActionInitiated", actor, next_action, "-")>>

\* OnRequestCancelAndInitiate needing the Picker only to resolve a request
\* without explicit action.
OnRequestWithoutPicker(actor, requested) ==
    IF actor \notin Entities \/ (~picker[actor].has /\ requested = NoAction) THEN <<>>
    ELSE
      LET current_action == currentAction[actor]
          next_action == IF requested # NoAction THEN requested
                         ELSE picker[actor].picked
      IN
      IF current_action # NoAction /\ next_action = current_action THEN <<>>
      ELSE
        (IF current_action # NoAction
         THEN <<Cmd("OnActionEnded", actor, current_action, "Cancelled")>>
         ELSE <<>>)
        \o <<Cmd("InsertCurrentAction", actor, next_action, "-"),
              Cmd("OnActionInitiated", actor, next_action, "-")>>

\* OnRequestCancelAndInitiate with CurrentAction replaced before the old
\* action is cancelled.
OnRequestInsertThenCancel(actor, requested) ==
    IF actor \notin Entities \/ ~picker[actor].has THEN <<>>
    ELSE
      LET current_action == currentAction[actor]
          next_action == IF requested # NoAction THEN requested
                         ELSE picker[actor].picked
      IN
      IF current_action # NoAction /\ next_action = current_action THEN <<>>
      ELSE
        <<Cmd("InsertCurrentAction", actor, next_action, "-")>>
        \o (IF current_action # NoAction
            THEN <<Cmd("OnActionEnded", actor, current_action, "Cancelled")>>
            ELSE <<>>)
        \o <<Cmd("OnActionInitiated", actor, next_action, "-")>>

\* The commands ActionPlugin::on_request_cancel_and_initiate queues for a
\* RequestAction with the given explicit action (NoAction: none) at actor.
OnRequestCancelAndInitiate(actor, requested) ==
    IF actor \notin Entities \/ ~picker[actor].has THEN <<>>
    ELSE
      LET current_action == currentAction[actor]
          next_action == IF requested # NoAction THEN requested
                         ELSE picker[actor].picked
      IN
      IF current_action # NoAction /\ next_action = current_action THEN <<>>
      ELSE
        (IF current_action # NoAction
         THEN <<Cmd("OnActionEnded", actor, current_action, "Cancelled")>>
         ELSE <<>>)
        \o <<Cmd("InsertCurrentAction", actor, next_action, "-"),
              Cmd("OnActionInitiated", actor, next_action, "-")>>

\* OnEndedRequestAgain requesting again whatever the reason.
OnEndedRequestAlways(actor, reason) ==
    <<Cmd("RequestAction", actor, NoAction, "-")>>

\* The commands ActionPlugin::on_ended_request_again queues for an
\* OnActionEnded with the given reason at actor.
OnEndedRequestAgain(actor, reason) ==
    IF reason = "Completed"
    THEN <<Cmd("RequestAction", actor, NoAction, "-")>>
    ELSE <<>>

InitActing ==
    /\ children = [e \in Entities |-> <<>>]
    /\ hasScore = {Scorer}
    /\ score = [e \in Entities |-> 0]
    /\ agg = [e \in Entities |-> NoAgg]
    /\ policy = [e \in Entities |-> NoPolicy]
    /\ NoAncestry
    /\ NoRegistry
    /\ queue = <<>>
    /\ iter = NoIter
    /\ sorted = <<>>
    /\ cmds = <<>>
    /\ \E pickers \in SUBSET Actors :
         picker = [e \in Entities |->
                     IF e \in pickers
                     THEN PickerNew("idle", {<<Scorer, "drink">>})
                     ELSE NoPicker]
    /\ currentAction = [e \in Entities |-> NoAction]
    /\ log = <<>>
    /\ run = NoRun
    /\ scored = <<>>
    /\ externals = 0
    /\ flushing = FALSE

\* A system or test triggers RequestAction at an actor, with or without an
\* explicit action.
TriggerRequestAction ==
    \E actor \in Actors, requested \in Actions \cup {NoAction} :
        /\ ~flushing
        /\ externals < MaxExternal
        /\ externals' = externals + 1
        /\ cmds' = Queued(Cmd("RequestAction", actor, requested, "-"))
        /\ UNCHANGED <<treeVars, score, iterVars, actVars, log, run, scored, flushing>>

\* An action's own logic triggers OnActionEnded at an actor.
TriggerActionEnded ==
    \E actor \in Actors, action \in Actions, reason \in {"Completed", "Cancelled"} :
        /\ ~flushing
        /\ externals < MaxExternal
        /\ externals' = externals + 1
        /\ cmds' = Queued(Cmd("OnActionEnded", actor, action, reason))
        /\ UNCHANGED <<treeVars, score, iterVars, actVars, log, run, scored, flushing>>

\* A picker policy calls Picker::pick on an actor's Picker, in a pick run
\* that is over before the host queues its next commands.
PickerPick ==
    \E actor \in Actors, score_entity \in {PLACEHOLDER, Scorer} :
        /\ ~flushing
        /\ picker[actor].has
        /\ picker' = [picker EXCEPT ![actor] = Pick(@, score_entity)]
        /\ picker' # picker
        /\ UNCHANGED <<treeVars, score, iterVars, cmds, currentAction, log, run,
                       scored, externals, flushing>>

\* RequestAction is delivered: ActionPlugin::on_request_cancel_and_initiate runs.
DeliverRequestAction ==
    /\ cmds # <<>>
    /\ Head(cmds).type = "RequestAction"
    /\ cmds' = Flushed(OnRequestCancelAndInitiate(Head(cmds).entity, Head(cmds).action),
                       Tail(cmds))
    /\ log' = Append(log, Applied(Head(cmds)))
    /\ flushing' = (cmds' # <<>>)
    /\ UNCHANGED <<treeVars, score, iterVars, actVars, run, scored, externals>>

\* OnActionEnded is delivered: ActionPlugin::on_ended_request_again runs.
DeliverActionEnded ==
    /\ cmds # <<>>
    /\ Head(cmds).type = "OnActionEnded"
    /\ cmds' = Flushed(OnEndedRequestAgain(Head(cmds).entity, Head(cmds).reason),
                       Tail(cmds))
    /\ log' = Append(log, Applied(Head(cmds)))
    /\ flushing' = (cmds' # <<>>)
    /\ UNCHANGED <<treeVars, score, iterVars, actVars, run, scored, externals>>

\* commands.entity(actor).insert(CurrentAction(next_action)) is applied.
ApplyInsertCurrentAction ==
    /\ cmds # <<>>
    /\ Head(cmds).type = "InsertCurrentAction"
    /\ currentAction' = [currentAction EXCEPT ![Head(cmds).entity] = Head(cmds).action]
    /\ cmds' = Flushed(<<>>, Tail(cmds))
    /\ log' = Append(log, Applied(Head(cmds)))
    /\ flushing' = (cmds' # <<>>)
    /\ UNCHANGED <<treeVars, score, iterVars, picker, run, scored, externals>>

\* OnActionInitiated is delivered; the plugin itself has no observer for it.
DeliverActionInitiated ==
    /\ cmds # <<>>
    /\ Head(cmds).type = "OnActionInitiated"
    /\ cmds' = Flushed(<<>>, Tail(cmds))
    /\ log' = Append(log, Applied(Head(cmds)))
    /\ flushing' = (cmds' # <<>>)
    /\ UNCHANGED <<treeVars, score, iterVars, actVars, run, scored, externals>>

NextActing ==
    \/ TriggerRequestAction
    \/ TriggerActionEnded
    \/ PickerPick
    \/ DeliverRequestAction
    \/ DeliverActionEnded
    \/ ApplyInsertCurrentAction
    \/ DeliverActionInitiated

SpecActing == InitActing /\ [][NextActing]_vars

----------------------------------------------------------------------------
(* Picking  (picking.rs, picking/first_to_score.rs, picking/highest.rs,
   picking/random.rs) *)

\* commands.trigger_targets(OnPick, target)
OnPickCmd(e) == Cmd("OnPick", e, NoAction, "-")

\* commands.trigger_targets(OnPicked { action }, target)
OnPickedCmd(e, action) == Cmd("OnPicked", e, action, "-")

RECURSIVE OnPickCmds(_)
\* One OnPick trigger per entity of a sequence, in order.
OnPickCmds(es) ==
    IF es = <<>> THEN <<>> ELSE <<OnPickCmd(Head(es))>> \o OnPickCmds(Tail(es))

\* Query<Entity, With<Picker>>
PickerEntities == {e \in Entities : picker[e].has}

RECURSIVE IterMany(_)
\* scores.iter_many(children): the children that carry Score, in child order.
IterMany(kids) ==
    IF kids = <<>> THEN <<>>
    ELSE (IF Head(kids) \in hasScore THEN <<Head(kids)>> ELSE <<>>)
            \o IterMany(Tail(kids))

RECURSIVE FirstToScoreLoopLast(_, _)
\* FirstToScoreLoop going on to the last entity that reaches the threshold.
FirstToScoreLoopLast(es, threshold) ==
    IF es = <<>> THEN PLACEHOLDER
    ELSE LET later == FirstToScoreLoopLast(Tail(es), threshold)
         IN IF later # PLACEHOLDER THEN later
            ELSE IF score[Head(es)] >= threshold THEN Head(es)
            ELSE PLACEHOLDER

RECURSIVE FirstToScoreLoop(_, _)
\* The loop of FirstToScore::observer::run: the first score entity whose
\* Score is at least the threshold (PLACEHOLDER: none).
FirstToScoreLoop(es, threshold) ==
    IF es = <<>> THEN PLACEHOLDER
    ELSE IF score[Head(es)] >= threshold THEN Head(es)
    ELSE FirstToScoreLoop(Tail(es), threshold)

\* FirstToScore::observer::run: the Picker afterwards and the commands queued.
FirstToScoreRun(target) ==
    LET found == FirstToScoreLoop(IterMany(children[target]), policy[target].threshold)
        p == Pick(picker[target], found)
    IN IF found # PLACEHOLDER
       THEN [picker |-> p, queued |-> <<>>]
       ELSE [picker |-> p, queued |-> <<OnPickedCmd(target, p.picked)>>]

RECURSIVE HighestLoop(_, _)
\* The loop of Highest::observer::run: highest_score_entity after the loop.
HighestLoop(es, highest) ==
    IF es = <<>> THEN highest
    ELSE IF highest = PLACEHOLDER THEN HighestLoop(Tail(es), Head(es))
    ELSE IF score[Head(es)] > score[highest] THEN HighestLoop(Tail(es), Head(es))
    ELSE HighestLoop(Tail(es), highest)

\* Highest::observer::run
HighestRun(target) ==
    LET found == HighestLoop(IterMany(children[target]), PLACEHOLDER)
        p == Pick(picker[target], found)
    IN [picker |-> p, queued |-> <<OnPickedCmd(target, p.picked)>>]

\* picker.choices.keys()
ChoiceKeys(p) == {c[1] : c \in p.choices}

\* PickRandom::observer::run, random being the key the generator chose
\* (PLACEHOLDER: None, when there are no choices).
RandomRun(target, random) ==
    LET p == Pick(picker[target], random)
    IN [picker |-> p, queued |-> <<OnPickedCmd(target, p.picked)>>]

\* RandomKeys with the generator choosing among the children of the entity
\* that carry a Score instead of the keys of the choices.
RandomKeysAmongChildren ==
    {rnd \in [PickerEntities -> Entities \cup {PLACEHOLDER}] :
        \A e \in PickerEntities :
            IF IterMany(children[e]) = <<>> THEN rnd[e] = PLACEHOLDER
            ELSE \E i \in 1..Len(IterMany(children[e])) : rnd[e] = IterMany(children[e])[i]}

\* What the random number generators may choose for each Picker entity.
RandomKeys ==
    {rnd \in [PickerEntities -> Entities \cup {PLACEHOLDER}] :
        \A e \in PickerEntities :
            IF ChoiceKeys(picker[e]) = {} THEN rnd[e] = PLACEHOLDER
            ELSE rnd[e] \in ChoiceKeys(picker[e])}

\* The entity matches the query of its policy's observer: FirstToScore and
\* Highest fetch &Children and the Picker, PickRandom the Picker only.
ObserverMatches(e) ==
    /\ e \in Entities
    /\ picker[e].has
    /\ \/ policy[e].kind = "Random"
       \/ policy[e].kind \in {"FirstToScore", "Highest"} /\ children[e] # <<>>

\* The entities the observers of an OnPick at target run for: the target if
\* it matches, every matching entity if the trigger has no target.
ObserverTargets(target) ==
    IF target = PLACEHOLDER THEN {e \in Entities : ObserverMatches(e)}
    ELSE {e \in {target} : ObserverMatches(e)}

\* The run of the policy observer of one target.
PickRun(target, rnd) ==
    CASE policy[target].kind = "FirstToScore" -> FirstToScoreRun(target)
      [] policy[target].kind = "Highest" -> HighestRun(target)
      [] OTHER -> RandomRun(target, rnd[target])

RECURSIVE PickAll(_, _)
\* The observers' runs for a sequence of targets: the Picker components
\* afterwards and the commands queued, in order.
PickAll(targets, rnd) ==
    IF targets = <<>> THEN [picker |-> picker, queued |-> <<>>]
    ELSE LET r == PickRun(Head(targets), rnd)
             rest == PickAll(Tail(targets), rnd)
         IN [picker |-> [rest.picker EXCEPT ![Head(targets)] = r.picker],
             queued |-> r.queued \o rest.queued]

\* PickingPlugin::run_picking: the OnPick triggers queued for a RunPicking at
\* target, the Picker entities being iterated in the given order.
RunPickingCmds(target, order) ==
    IF target # PLACEHOLDER THEN <<OnPickCmd(target)>> ELSE OnPickCmds(order)

\* The entities the host addresses RunPicking to: the actor, an entity
\* without Picker, or none.
PickTargets == Actors \cup {Scorer, PLACEHOLDER}

\* The threshold values a FirstToScore is built with.
Thresholds == 0..Scale

\* An actor with a Picker and one picker policy, whose children are the
\* entities after it; each child carries a Score or not and is a key of the
\* Picker's choices or not.
InitPicking ==
    /\ \E k \in 0..(NumEntities - 1) :
         children = [e \in Entities |->
                       IF e = 1 THEN [j \in 1..k |-> j + 1] ELSE <<>>]
    /\ hasScore \in SUBSET {e \in Entities : ParentOf(children, e) = 1}
    /\ score \in [Entities -> 0..Scale]
    /\ \A e \in Entities \ hasScore : score[e] = 0
    /\ agg = [e \in Entities |-> NoAgg]
    /\ \E kind \in {"FirstToScore", "Highest", "Random"} :
       \E threshold \in Thresholds :
         /\ kind # "FirstToScore" => threshold = 0
         /\ policy = [e \in Entities |->
                        IF e = 1 THEN [kind |-> kind, threshold |-> threshold]
                        ELSE NoPolicy]
    /\ \E keys \in SUBSET {e \in Entities : ParentOf(children, e) = 1} :
         picker = [e \in Entities |->
                     IF e = 1 THEN PickerNew("idle", {<<c, "drink">> : c \in keys})
                     ELSE NoPicker]
    /\ NoAncestry
    /\ NoRegistry
    /\ queue = <<>>
    /\ iter = NoIter
    /\ sorted = <<>>
    /\ cmds = <<>>
    /\ currentAction = [e \in Entities |-> NoAction]
    /\ log = <<>>
    /\ run = NoRun
    /\ scored = <<>>
    /\ externals = 0
    /\ flushing = FALSE

\* A system or test triggers RunPicking, targeted or not, once the world has
\* flushed what was queued before.
TriggerRunPicking ==
    \E target \in PickTargets :
        /\ cmds = <<>>
        /\ cmds' = Queued(Cmd("RunPicking", target, NoAction, "-"))
        /\ UNCHANGED <<treeVars, score, iterVars, actVars, log, run, scored,
                       externals, flushing>>

\* The host detaches the children of an entity between two flushes; the
\* Children component goes with the last child.
ClearChildren ==
    \E e \in Actors :
        /\ cmds = <<>>
        /\ children[e] # <<>>
        /\ children' = [children EXCEPT ![e] = <<>>]
        /\ UNCHANGED <<regVars, settings, hasScore, agg, policy, hasT, marker, cache, lookup, score,
                       iterVars, cmds, actVars, log, run, scored, externals, flushing>>

\* RunPicking is delivered: PickingPlugin::run_picking runs.
DeliverRunPicking ==
    /\ cmds # <<>>
    /\ Head(cmds).type = "RunPicking"
    /\ \E order \in Orders(PickerEntities) :
         cmds' = Flushed(RunPickingCmds(Head(cmds).entity, order), Tail(cmds))
    /\ flushing' = (cmds' # <<>>)
    /\ UNCHANGED <<treeVars, score, iterVars, actVars, log, run, scored, externals>>

\* OnPick is delivered: the observer of the target's picker policy runs.
DeliverOnPick ==
    /\ cmds # <<>>
    /\ Head(cmds).type = "OnPick"
    /\ \E order \in Orders(ObserverTargets(Head(cmds).entity)), rnd \in RandomKeys :
         LET r == PickAll(order, rnd)
         IN /\ picker' = r.picker
            /\ cmds' = Flushed(r.queued, Tail(cmds))
    /\ flushing' = (cmds' # <<>>)
    /\ UNCHANGED <<treeVars, score, iterVars, currentAction, log, run, scored, externals>>

\* OnPicked is delivered; the crate itself has no observer for it.
DeliverOnPicked ==
    /\ cmds # <<>>
    /\ Head(cmds).type = "OnPicked"
    /\ cmds' = Flushed(<<>>, Tail(cmds))
    /\ flushing' = (cmds' # <<>>)
    /\ UNCHANGED <<treeVars, score, iterVars, actVars, log, run, scored, externals>>

NextPicking ==
    \/ TriggerRunPicking
    \/ ClearChildren
    \/ DeliverRunPicking
    \/ DeliverOnPick
    \/ DeliverOnPicked

SpecPicking == InitPicking /\ [][NextPicking]_vars

----------------------------------------------------------------------------
(* The real-time lifecycle  (lib.rs): scoring, picking and acting together *)

RECURSIVE RequestCmdsWhenPickedDiffers(_)
\* RequestCmds that also requests for an actor whose CurrentAction is not
\* what its Picker picked last.
RequestCmdsWhenPickedDiffers(actors) ==
    IF actors = <<>> THEN <<>>
    ELSE LET actor == Head(actors) IN
         (IF currentAction[actor] = NoAction
               \/ currentAction[actor] = picker[actor].default
               \/ currentAction[actor] # picker[actor].picked
          THEN <<Cmd("RequestAction", actor, NoAction, "-")>>
          ELSE <<>>)
         \o RequestCmdsWhenPickedDiffers(Tail(actors))

RECURSIVE RequestCmds(_)
\* The loop of request_action_if_none_or_default over the actors in query
\* order: a RequestAction without explicit action for each actor that has no
\* CurrentAction or whose CurrentAction is its Picker's default.
RequestCmds(actors) ==
    IF actors = <<>> THEN <<>>
    ELSE LET actor == Head(actors) IN
         (IF currentAction[actor] = NoAction
               \/ currentAction[actor] = picker[actor].default
          THEN <<Cmd("RequestAction", actor, NoAction, "-")>>
          ELSE <<>>)
         \o RequestCmds(Tail(actors))

\* The scoring children of the actor of the lifecycle runs.
RealtimeScorers == {2, 3}

\* An actor with a Picker and a picker policy over two FixedScore children
\* spawned with Score::default(); the first child is a key of the choices.
InitRealtime ==
    /\ children = [e \in Entities |-> IF e = 1 THEN <<2, 3>> ELSE <<>>]
    /\ hasScore = RealtimeScorers
    /\ score = [e \in Entities |-> 0]
    /\ \E fixed \in [RealtimeScorers -> 0..Scale] :
         agg = [e \in Entities |->
                  IF e \in RealtimeScorers THEN [kind |-> "Fixed", param |-> fixed[e]]
                  ELSE NoAgg]
    /\ \E p \in {[kind |-> "FirstToScore", threshold |-> 1],
                 [kind |-> "Highest", threshold |-> 0],
                 [kind |-> "Random", threshold |-> 0]} :
         policy = [e \in Entities |-> IF e = 1 THEN p ELSE NoPolicy]
    /\ picker = [e \in Entities |->
                   IF e = 1 THEN PickerNew("idle", {<<2, "drink">>}) ELSE NoPicker]
    /\ NoAncestry
    /\ NoRegistry
    /\ queue = <<>>
    /\ iter = NoIter
    /\ sorted = <<>>
    /\ cmds = <<>>
    /\ currentAction = [e \in Entities |-> NoAction]
    /\ log = <<>>
    /\ run = NoRun
    /\ scored = <<>>
    /\ externals = 0
    /\ flushing = FALSE

\* score_and_pick that triggers RunPicking before RunScoring.
ScoreAndPickCmdsPickFirst ==
    <<Cmd("RunPicking", PLACEHOLDER, NoAction, "-"),
      Cmd("RunScoring", PLACEHOLDER, NoAction, "-")>>

\* The two triggers of score_and_pick, in the order it queues them.
ScoreAndPickCmds ==
    <<Cmd("RunScoring", PLACEHOLDER, NoAction, "-"),
      Cmd("RunPicking", PLACEHOLDER, NoAction, "-")>>

\* RealtimeLifecyclePlugin::score_and_pick
ScoreAndPick ==
    /\ cmds = <<>>
    /\ externals < MaxExternal
    /\ externals' = externals + 1
    /\ cmds' = ScoreAndPickCmds
    /\ UNCHANGED <<treeVars, score, iterVars, actVars, log, run, scored, flushing>>

\* RealtimeLifecyclePlugin::request_action_if_none_or_default
RequestActionIfNoneOrDefault ==
    /\ cmds = <<>>
    /\ externals < MaxExternal
    /\ externals' = externals + 1
    /\ \E actors \in Orders(PickerEntities) : cmds' = RequestCmds(actors)
    /\ UNCHANGED <<treeVars, score, iterVars, actVars, log, run, scored, flushing>>

\* The running action's own logic reports its end, between two flushes.
ActionEnds ==
    \E actor \in Actors, reason \in {"Completed", "Cancelled"} :
        /\ cmds = <<>>
        /\ externals < MaxExternal
        /\ currentAction[actor] # NoAction
        /\ externals' = externals + 1
        /\ cmds' = Queued(Cmd("OnActionEnded", actor, currentAction[actor], reason))
        /\ UNCHANGED <<treeVars, score, iterVars, actVars, log, run, scored, flushing>>

NextRealtime ==
    \/ ScoreAndPick
    \/ RequestActionIfNoneOrDefault
    \/ ActionEnds
    \/ RunScoringGlobal
    \/ DeliverOnScore
    \/ DeliverRunPicking
    \/ DeliverOnPick
    \/ DeliverOnPicked
    \/ DeliverRequestAction
    \/ DeliverActionEnded
    \/ ApplyInsertCurrentAction
    \/ DeliverActionInitiated

SpecRealtime == InitRealtime /\ [][NextRealtime]_vars

----------------------------------------------------------------------------
(* AncestorQuery  (ecs.rs) and score_ancestor  (scoring.rs) *)

RECURSIVE FindFrom(_)
\* The loop of AncestorQuery::find from current: the first entity up the
\* parent chain that carries T (PLACEHOLDER: Err, none does).
FindFrom(current) ==
    IF current \in hasT THEN current
    ELSE LET parent == ParentOf(children, current)
         IN IF parent # PLACEHOLDER THEN FindFrom(parent) ELSE PLACEHOLDER

\* AncestorQuery::find(start) on the cache c: the cache afterwards and the
\* entity found.
AncestorFind(c, start) ==
    LET found == FindFrom(start)
    IN [cache |-> IF found # PLACEHOLDER THEN [c EXCEPT ![start] = found] ELSE c,
        found |-> found]

\* AncestorGet that keeps a cache entry whose ancestor lost T.
AncestorGetNoEvict(c, start) ==
    IF c[start] # PLACEHOLDER /\ c[start] \in hasT
    THEN [cache |-> c, found |-> c[start], evicted |-> FALSE]
    ELSE LET r == AncestorFind(c, start)
         IN [cache |-> r.cache, found |-> r.found, evicted |-> c[start] # PLACEHOLDER]

\* AncestorQuery::get(start) on the cache c: the cache afterwards, the
\* entity whose T is returned (PLACEHOLDER: Err), and whether the call
\* removed a cache entry.
AncestorGet(c, start) ==
    IF c[start] # PLACEHOLDER
    THEN IF c[start] \in hasT
         THEN [cache |-> c, found |-> c[start], evicted |-> FALSE]
         ELSE LET r == AncestorFind([c EXCEPT ![start] = PLACEHOLDER], start)
              IN [cache |-> r.cache, found |-> r.found, evicted |-> TRUE]
    ELSE LET r == AncestorFind(c, start)
         IN [cache |-> r.cache, found |-> r.found, evicted |-> FALSE]

\* The value held by the T that the host inserts on entity e.
TValueOf(e) == e - 1

\* impl From<&T> for Score, as in the crate's example: Score::new(value / max).
Convert(t) == Clamp(t)

\* ScoreAncestor leaving the Score as it is when no ancestor is found.
ScoreAncestorKeep(scorer) ==
    IF scorer \notin hasScore \/ scorer \notin marker
    THEN [score |-> score, cache |-> cache, lookup |-> lookup]
    ELSE LET r == AncestorGet(cache, scorer)
         IN [score |-> IF r.found # PLACEHOLDER
                       THEN [score EXCEPT ![scorer] = Convert(TValueOf(r.found))]
                       ELSE score,
             cache |-> r.cache,
             lookup |-> [start |-> scorer, found |-> r.found, evicted |-> r.evicted]]

\* score_ancestor for an OnScore at scorer: the Scores, the cache and the
\* record of the lookup afterwards.
ScoreAncestor(scorer) ==
    IF scorer \notin hasScore \/ scorer \notin marker
    THEN [score |-> score, cache |-> cache, lookup |-> lookup]
    ELSE LET r == AncestorGet(cache, scorer)
         IN [score |-> [score EXCEPT ![scorer] =
                          IF r.found # PLACEHOLDER THEN Convert(TValueOf(r.found))
                          ELSE 0],
             cache |-> r.cache,
             lookup |-> [start |-> scorer, found |-> r.found, evicted |-> r.evicted]]

\* The entities RunScoring is targeted at in the ancestor runs.
AncestorScorers == {1, 2}

\* Entity 1 is a scorer with the marker and a Score; entity 2 carries the
\* Score without the marker, or the marker without the Score, or neither,
\* and is a root or a child of entity 3. No entity carries T yet.
InitAncestor ==
    /\ \E p2 \in {PLACEHOLDER, 3} :
         children = ChildrenOfParents([e \in Entities |->
                                          IF e = 2 THEN p2 ELSE PLACEHOLDER])
    /\ \E cfg \in {<<{1}, {1}>>, <<{1, 2}, {1}>>, <<{1}, {1, 2}>>} :
         /\ hasScore = cfg[1]
         /\ marker = cfg[2]
    /\ score \in [Entities -> 0..Scale]
    /\ \A e \in Entities \ hasScore : score[e] = 0
    /\ agg = [e \in Entities |-> NoAgg]
    /\ policy = [e \in Entities |-> NoPolicy]
    /\ hasT = {}
    /\ cache = [e \in Entities |-> PLACEHOLDER]
    /\ lookup = NoLookup
    /\ NoRegistry
    /\ queue = <<>>
    /\ iter = NoIter
    /\ sorted = <<>>
    /\ cmds = <<>>
    /\ picker = [e \in Entities |-> NoPicker]
    /\ currentAction = [e \in Entities |-> NoAction]
    /\ log = <<>>
    /\ run = NoRun
    /\ scored = <<>>
    /\ externals = 0
    /\ flushing = FALSE

\* The children sequence kids without entity e.
Without(kids, e) == SelectSeq(kids, LAMBDA c : c # e)

\* The host gives the scorer entity 1 a new parent, or none, between two
\* flushes.
SetParent ==
    \E p \in (Entities \ {1}) \cup {PLACEHOLDER} :
        /\ cmds = <<>>
        /\ p # ParentOf(children, 1)
        /\ children' = [e \in Entities |->
                          IF e = p THEN Append(children[e], 1)
                          ELSE Without(children[e], 1)]
        /\ lookup' = NoLookup
        /\ UNCHANGED <<regVars, settings, hasScore, agg, policy, hasT, marker, cache, score, iterVars,
                       cmds, actVars, log, run, scored, externals, flushing>>

\* The host inserts T on an entity between two flushes.
InsertT ==
    \E e \in Entities \ hasT :
        /\ cmds = <<>>
        /\ hasT' = hasT \cup {e}
        /\ lookup' = NoLookup
        /\ UNCHANGED <<regVars, settings, children, hasScore, agg, policy, marker, cache, score, iterVars,
                       cmds, actVars, log, run, scored, externals, flushing>>

\* The host removes T from an entity between two flushes.
RemoveT ==
    \E e \in hasT :
        /\ cmds = <<>>
        /\ hasT' = hasT \ {e}
        /\ lookup' = NoLookup
        /\ UNCHANGED <<regVars, settings, children, hasScore, agg, policy, marker, cache, score, iterVars,
                       cmds, actVars, log, run, scored, externals, flushing>>

\* A system or test triggers RunScoring targeted at a scorer.
TriggerScoreAncestor ==
    \E target \in AncestorScorers :
        /\ cmds = <<>>
        /\ cmds' = Queued(Cmd("RunScoring", target, NoAction, "-"))
        /\ UNCHANGED <<treeVars, score, iterVars, actVars, log, run, scored,
                       externals, flushing>>

\* An OnScore trigger is delivered: score_ancestor runs.
DeliverOnScoreAncestor ==
    /\ cmds # <<>>
    /\ Head(cmds).type = "OnScore"
    /\ LET r == ScoreAncestor(Head(cmds).entity)
       IN /\ score' = r.score
          /\ cache' = r.cache
          /\ lookup' = r.lookup
    /\ scored' = Append(scored, Head(cmds).entity)
    /\ cmds' = Flushed(<<>>, Tail(cmds))
    /\ UNCHANGED <<regVars, settings, children, hasScore, agg, policy, hasT, marker, iterVars, actVars,
                   log, run, externals, flushing>>

NextAncestor ==
    \/ SetParent
    \/ InsertT
    \/ RemoveT
    \/ TriggerScoreAncestor
    \/ RunScoringTargeted
    \/ DeliverOnScoreAncestor

SpecAncestor == InitAncestor /\ [][NextAncestor]_vars

----------------------------------------------------------------------------
(* One-time observer registration  (ecs.rs Once; the component hooks of
   every aggregator and picker kind) *)

\* The entities the host adds components to and removes them from.
OnceEntities == {1, 2}

\* The kinds the host adds: the two aggregators of tests::all_or_nothing and
\* one picker policy. The hooks of the other kinds differ in the resource type
\* only; their observers are counted all the same.
HostKinds == {"FixedScore", "AllOrNothing", "Highest"}

\* commands.once::<...ObserverSpawned>().observe(Self::observer), called by
\* the on_add hook of kind k when entity e receives the component.
OnceCmd(e, k) == Cmd("Once", e, k, "-")

\* A Once command that runs its command whether or not the resource exists.
OnceApplyAlways(k) ==
    [resources |-> resources \cup {k},
     observers |-> [observers EXCEPT ![k] = @ + 1]]

\* Once::apply: return when the resource is already in the world; else
\* insert the resource and run the command, which adds the observer.
OnceApply(k) ==
    IF k \in resources
    THEN [resources |-> resources, observers |-> observers]
    ELSE [resources |-> resources \cup {k},
          observers |-> [observers EXCEPT ![k] = @ + 1]]

\* An empty world: no entity carries any component.
InitOnce ==
    /\ children = [e \in Entities |-> <<>>]
    /\ hasScore = {}
    /\ Blank

\* The host inserts a component of kind k on entity e. The on_add hook runs
\* when e did not carry the component, and queues the Once command.
InsertComponent ==
    /\ externals < MaxExternal
    /\ \E e \in OnceEntities, k \in HostKinds :
         /\ components' = [components EXCEPT ![e] = @ \cup {k}]
         /\ cmds' = IF k \in components[e] THEN cmds ELSE Queued(OnceCmd(e, k))
         /\ log' = Append(log, Cmd("Insert", e, k, "-"))
    /\ externals' = externals + 1
    /\ UNCHANGED <<children, hasScore, score, agg, policy, hasT, marker, cache,
                   lookup, resources, observers, settings, iterVars, actVars, run, scored,
                   flushing>>

\* The host removes a component from an entity; no hook of the kind runs.
RemoveComponent ==
    /\ externals < MaxExternal
    /\ \E e \in OnceEntities : \E k \in components[e] :
         components' = [components EXCEPT ![e] = @ \ {k}]
    /\ externals' = externals + 1
    /\ UNCHANGED <<children, hasScore, score, agg, policy, hasT, marker, cache,
                   lookup, resources, observers, settings, iterVars, actVars, cmds, log,
                   run, scored, flushing>>

\* World::flush applies the Once command at the head of the queue.
ApplyOnce ==
    /\ cmds # <<>>
    /\ Head(cmds).type = "Once"
    /\ resources' = OnceApply(Head(cmds).action).resources
    /\ observers' = OnceApply(Head(cmds).action).observers
    /\ cmds' = Tail(cmds)
    /\ log' = Append(log, Head(cmds))
    /\ UNCHANGED <<children, hasScore, score, agg, policy, hasT, marker, cache,
                   lookup, components, settings, iterVars, actVars, run, scored, externals,
                   flushing>>

NextOnce ==
    \/ InsertComponent
    \/ RemoveComponent
    \/ ApplyOnce

SpecOnce == InitOnce /\ [][NextOnce]_vars

----------------------------------------------------------------------------
(* One aggregator over its children  (scoring/*.rs) *)

\* The entity that carries the aggregator, and the entities that can be its
\* children.
AggParent == 1
AggChildren == <<2, 3, 4>>

\* The measures and evaluators the crate provides that the model covers.
Measures == {"WeightedSum", "WeightedProduct", "WeightedMax", "WeightedRMS"}
Evaluators == {"Linear", "Power"}

\* The aggregator configurations of the parent: the component with its
\* threshold or value, and its other settings. A ScoreRange keeps lo <= hi
\* (ScoreRange::new swaps reversed bounds); a curve takes any two anchors.
AggConfigs ==
    {<<[kind |-> k, param |-> t], NoSettings>> :
        k \in {"Fixed", "Sum", "AllOrNothing", "Product", "Winning"}, t \in 0..Scale}
    \cup {<<[kind |-> "Product", param |-> t],
            [NoSettings EXCEPT !.use_compensation = TRUE]>> : t \in 0..Scale}
    \cup {<<[kind |-> "Measured", param |-> 0],
            [NoSettings EXCEPT !.measure = m]>> : m \in Measures}
    \cup {<<[kind |-> "Evaluated", param |-> 0],
            [NoSettings EXCEPT !.evaluator = ev, !.lo = r[1], !.hi = r[2]]>> :
            ev \in Evaluators, r \in (0..Scale) \X (0..Scale)}
    \cup {<<[kind |-> "Random", param |-> 0],
            [NoSettings EXCEPT !.lo = r[1], !.hi = r[2]]>> :
            r \in {q \in (0..Scale) \X (0..Scale) : q[1] <= q[2]}}

\* The children of a Measured parent that can carry a Weighted.
WeightedChildren == {2}

\* A child that can carry a Weighted but does not.
NoWeight == 0 - 1

\* The parent carries one aggregator and has the first k of AggChildren as
\* its children; any of them carries a Score, the children's Scores are any
\* values Score::new produces from finite input, and the parent's Score, if
\* it has one, holds 1/Scale from an earlier run.
InitAggregate ==
    /\ \E k \in 0..Len(AggChildren) :
         children = [e \in Entities |->
                        IF e = AggParent THEN SubSeq(AggChildren, 1, k) ELSE <<>>]
    /\ hasScore \in SUBSET Entities
    /\ \A e \in hasScore : e = AggParent \/ ParentOf(children, e) = AggParent
    /\ score \in [Entities -> 0..Scale]
    /\ \A e \in Entities \ hasScore : score[e] = 0
    /\ AggParent \in hasScore => score[AggParent] = 1
    /\ \E cfg \in AggConfigs :
         /\ agg = [e \in Entities |-> IF e = AggParent THEN cfg[1] ELSE NoAgg]
         /\ IF cfg[1].kind = "Measured"
            THEN \E w \in [WeightedChildren -> (0..Scale) \cup {NoWeight}] :
                    settings = [e \in Entities |->
                                  IF e = AggParent THEN cfg[2]
                                  ELSE IF e \in WeightedChildren /\ w[e] # NoWeight
                                  THEN [NoSettings EXCEPT !.weighted = TRUE,
                                                          !.weight = w[e]]
                                  ELSE NoSettings]
            ELSE settings = [e \in Entities |->
                                IF e = AggParent THEN cfg[2] ELSE NoSettings]
    /\ policy = [e \in Entities |-> NoPolicy]
    /\ NoAncestry
    /\ components = [e \in Entities |-> {}]
    /\ resources = {}
    /\ observers = [k \in Kinds |-> 0]
    /\ queue = <<>>
    /\ iter = NoIter
    /\ sorted = <<>>
    /\ cmds = <<>>
    /\ picker = [e \in Entities |-> NoPicker]
    /\ currentAction = [e \in Entities |-> NoAction]
    /\ log = <<>>
    /\ run = NoRun
    /\ scored = <<>>
    /\ externals = 0
    /\ flushing = FALSE

\* The host triggers RunScoring at the parent, or untargeted, once the
\* world has flushed what was queued before.
TriggerAggregate ==
    \E target \in {AggParent, PLACEHOLDER} :
        /\ cmds = <<>>
        /\ cmds' = Queued(Cmd("RunScoring", target, NoAction, "-"))
        /\ UNCHANGED <<treeVars, score, iterVars, actVars, log, run, scored, externals,
                       flushing>>

NextAggregate ==
    \/ TriggerAggregate
    \/ RunScoringTargeted
    \/ RunScoringGlobal
    \/ DeliverOnScore

SpecAggregate == InitAggregate /\ [][NextAggregate]_vars

----------------------------------------------------------------------------
(* The Random picker alone  (picking/random.rs) *)

\* The Pickers a Random actor is built with: Picker::new(idle) and with(key,
\* action) for any entities but the actor, children or not, each mapped to
\* any action.
RandomPickers ==
    UNION {{PickerNew("idle", {<<c, f[c]>> : c \in keys}) : f \in [keys -> Actions]}
            : keys \in SUBSET (Entities \ Actors)}

\* An actor with a Picker and PickRandom; its children are the first entities
\* after it, each with a Score of any value or without one; the keys of the
\* choices are any entities, children or not.
InitRandom ==
    /\ \E k \in 0..(NumEntities - 1) :
         children = [e \in Entities |->
                       IF e = 1 THEN [j \in 1..k |-> j + 1] ELSE <<>>]
    /\ hasScore \in SUBSET {e \in Entities : ParentOf(children, e) = 1}
    /\ score \in [Entities -> 0..Scale]
    /\ \A e \in Entities \ hasScore : score[e] = 0
    /\ agg = [e \in Entities |-> NoAgg]
    /\ policy = [e \in Entities |->
                   IF e = 1 THEN [kind |-> "Random", threshold |-> 0] ELSE NoPolicy]
    /\ \E p \in RandomPickers :
         picker = [e \in Entities |-> IF e = 1 THEN p ELSE NoPicker]
    /\ NoAncestry
    /\ NoRegistry
    /\ queue = <<>>
    /\ iter = NoIter
    /\ sorted = <<>>
    /\ cmds = <<>>
    /\ currentAction = [e \in Entities |-> NoAction]
    /\ log = <<>>
    /\ run = NoRun
    /\ scored = <<>>
    /\ externals = 0
    /\ flushing = FALSE

NextRandom ==
    \/ TriggerRunPicking
    \/ DeliverRunPicking
    \/ DeliverOnPick
    \/ DeliverOnPicked

SpecRandom == InitRandom /\ [][NextRandom]_vars

----------------------------------------------------------------------------
(* Acting with its flush running to the end *)

\* World::flush applies every queued command: a command at the head of the
\* queue is applied eventually. Nothing obliges the host to trigger anything.
FlushCompletes ==
    /\ WF_vars(DeliverRequestAction)
    /\ WF_vars(DeliverActionEnded)
    /\ WF_vars(ApplyInsertCurrentAction)
    /\ WF_vars(DeliverActionInitiated)

SpecActingLive == InitActing /\ [][NextActing]_vars /\ FlushCompletes

----------------------------------------------------------------------------
(* The request system of the real-time lifecycle over several actors
   (lib.rs) *)

\* The entities that can be actors of the request system.
RequestActors == {1, 2}

\* The Picker of an actor: Picker::new(idle).with(Scorer, drink), as built or
\* after a pick of either action.
ActorPickers ==
    {Pick(PickerNew("idle", {<<Scorer, "drink">>}), e) : e \in {PLACEHOLDER, Scorer}}

\* Any of the actors carries a Picker, whose last pick is any action, and a
\* CurrentAction or none, as earlier requests and picks have left them.
InitRequest ==
    /\ children = [e \in Entities |-> <<>>]
    /\ hasScore = {Scorer}
    /\ score = [e \in Entities |-> 0]
    /\ agg = [e \in Entities |-> NoAgg]
    /\ policy = [e \in Entities |-> NoPolicy]
    /\ NoAncestry
    /\ NoRegistry
    /\ queue = <<>>
    /\ iter = NoIter
    /\ sorted = <<>>
    /\ cmds = <<>>
    /\ picker \in [Entities -> ActorPickers \cup {NoPicker}]
    /\ \A e \in Entities \ RequestActors : picker[e] = NoPicker
    /\ currentAction \in [Entities -> Actions \cup {NoAction}]
    /\ \A e \in Entities : ~picker[e].has => currentAction[e] = NoAction
    /\ log = <<>>
    /\ run = NoRun
    /\ scored = <<>>
    /\ externals = 0
    /\ flushing = FALSE

NextRequestSystem ==
    \/ RequestActionIfNoneOrDefault
    \/ ActionEnds
    \/ DeliverRequestAction
    \/ DeliverActionEnded
    \/ ApplyInsertCurrentAction
    \/ DeliverActionInitiated

SpecRequest == InitRequest /\ [][NextRequestSystem]_vars

----------------------------------------------------------------------------
(* Properties of the traversal *)

RECURSIVE AncestorsOf(_)
\* The proper ancestors of e in the hierarchy.
AncestorsOf(e) ==
    IF ParentOf(children, e) = PLACEHOLDER THEN {}
    ELSE {ParentOf(children, e)} \cup AncestorsOf(ParentOf(children, e))

\* C1: in the sequence yielded by DFSPostTraversal::iter(root), every entity
\* comes strictly after each of its descendants that the sequence contains.
C1_PostOrder ==
    \A i, j \in 1..Len(sorted) :
        sorted[j] \in AncestorsOf(sorted[i]) => i < j

\* A finished traversal that yielded a grandchild, its parent, then an uncle
\* and the root.
C1_Witness ==
    /\ ~iter.active
    /\ Len(sorted) >= 4
    /\ \E i, j, k \in 1..Len(sorted) :
         /\ i < j /\ j < k
         /\ ParentOf(children, sorted[i]) = sorted[j]
         /\ ParentOf(children, sorted[j]) = sorted[Len(sorted)]
         /\ ParentOf(children, sorted[k]) = sorted[Len(sorted)]
----------------------------------------------------------------------------
(* Properties of a scoring run *)

RECURSIVE ScoredSubtree(_)
\* The entities reached from root through the children of entities with Score.
ScoredSubtree(root) ==
    {root} \cup (IF root \in hasScore
                  THEN UNION {ScoredSubtree(children[root][k]) : k \in 1..Len(children[root])}
                  ELSE {})

\* How many OnScore triggers of the run were delivered to e.
TimesScored(e) == Cardinality({k \in 1..Len(scored) : scored[k] = e})

\* The run handled last has been flushed completely.
RunFlushed == run.handled /\ cmds = <<>>

\* The entities that run is to score.
RunEntities ==
    IF run.target # PLACEHOLDER THEN ScoredSubtree(run.target)
    ELSE UNION {ScoredSubtree(r) : r \in ScoreableRoots}

\* C2: one RunScoring request triggers OnScore exactly once for each entity
\* of the scored subtrees and for no other entity; an untargeted request
\* reaches every entity carrying Score.
C2_ExactlyOnce ==
    RunFlushed =>
        /\ \A e \in Entities : TimesScored(e) = (IF e \in RunEntities THEN 1 ELSE 0)
        /\ run.target = PLACEHOLDER => \A e \in hasScore : TimesScored(e) = 1

\* An untargeted run over a scoring subtree nested under a non-scoring entity
\* that sits under a scoring entity.
C2_Witness ==
    /\ RunFlushed
    /\ run.target = PLACEHOLDER
    /\ \E a, b, c \in Entities :
         /\ a \in hasScore /\ b \notin hasScore /\ c \in hasScore
         /\ ParentOf(children, b) = a
         /\ ParentOf(children, c) = b
         /\ TimesScored(c) = 1

\* The Score the aggregator of e is specified to compute from the Scores sc
\* of its children: Fixed(v) gives v; Sum(t) gives the sum s of the child
\* Scores if s >= t and 0 otherwise, clamped to [0,1].
AggregatorFormula(e, sc) ==
    IF agg[e].kind = "Fixed" THEN agg[e].param
    ELSE LET s == SumScores(children[e], sc)
         IN IF s >= agg[e].param THEN (IF s > Scale THEN Scale ELSE s) ELSE 0

\* The aggregator nodes of the last run that compute a Score.
ComputedNodes ==
    {e \in RunEntities \cap hasScore :
        \/ agg[e].kind = "Fixed"
        \/ agg[e].kind = "Sum" /\ children[e] # <<>>}

\* C3: after a targeted RunScoring has been flushed, every aggregator node of
\* the target's scoring subtree holds the Score its formula gives for its
\* children's Scores as they are at the end of the run.
C3_ScoresSettled ==
    (RunFlushed /\ run.target # PLACEHOLDER) =>
        \A e \in ComputedNodes : score[e] = AggregatorFormula(e, score)

\* A flushed targeted run over a Sum whose child is a Sum over a scored leaf.
C3_Witness ==
    /\ RunFlushed
    /\ run.target # PLACEHOLDER
    /\ \E a, b, c \in ComputedNodes :
         /\ a = run.target
         /\ ParentOf(children, b) = a
         /\ ParentOf(children, c) = b
         /\ agg[a].kind = "Sum" /\ agg[b].kind = "Sum"
         /\ score[c] > 0 /\ score[a] > 0
----------------------------------------------------------------------------
(* Properties of the action lifecycle *)

\* The action a logged RequestAction resolved to: its explicit action, or
\* Picker.picked as it was when the request was handled.
Resolved(r) == IF r.action # NoAction THEN r.action ELSE r.picked

\* Log entry i is a RequestAction handled for an entity with a Picker.
IsRequest(i) == log[i].type = "RequestAction" /\ picker[log[i].entity].has

\* Log entry i is the application of the given command.
IsApplied(i, type, entity, action, reason) ==
    /\ log[i].type = type
    /\ log[i].entity = entity
    /\ log[i].action = action
    /\ log[i].reason = reason

\* C4: when a RequestAction resolves to an action other than the actor's
\* CurrentAction, OnActionEnded(Cancelled) for the old action is delivered
\* first, then CurrentAction is replaced, then OnActionInitiated for the new
\* action is delivered, at which point CurrentAction is the new action.
C4_CancelBeforeInitiate ==
    \A i \in 1..Len(log) :
        (IsRequest(i) /\ log[i].cur # NoAction /\ Resolved(log[i]) # log[i].cur) =>
            /\ ~flushing => Len(log) >= i + 3
            /\ Len(log) >= i + 1 =>
                  IsApplied(i + 1, "OnActionEnded", log[i].entity, log[i].cur, "Cancelled")
            /\ Len(log) >= i + 2 =>
                  IsApplied(i + 2, "InsertCurrentAction", log[i].entity, Resolved(log[i]), "-")
            /\ Len(log) >= i + 3 =>
                  /\ IsApplied(i + 3, "OnActionInitiated", log[i].entity, Resolved(log[i]), "-")
                  /\ log[i + 3].cur = Resolved(log[i])

\* A switch that has been flushed, after an earlier switch of the same actor.
C4_Witness ==
    /\ ~flushing
    /\ \E i, j \in 1..Len(log) :
         /\ i < j
         /\ IsRequest(i) /\ log[i].cur # NoAction /\ Resolved(log[i]) # log[i].cur
         /\ IsRequest(j) /\ log[j].cur # NoAction /\ Resolved(log[j]) # log[j].cur
         /\ log[i].entity = log[j].entity
         /\ currentAction[log[j].entity] = Resolved(log[j])

\* The log position of the RequestAction handled next after entry i for the
\* same actor, or Len(log) + 1 if there is none.
NextRequest(i) ==
    IF \E k \in (i + 1)..Len(log) :
          log[k].type = "RequestAction" /\ log[k].entity = log[i].entity
    THEN CHOOSE k \in (i + 1)..Len(log) :
          /\ log[k].type = "RequestAction" /\ log[k].entity = log[i].entity
          /\ \A m \in (i + 1)..(k - 1) :
                ~(log[m].type = "RequestAction" /\ log[m].entity = log[i].entity)
    ELSE Len(log) + 1

\* Entries i and j are two consecutive RequestAction(None) calls for the same
\* actor with the same Picker.picked, and what they queued has been applied.
ConsecutiveRequests(i, j) ==
    /\ IsRequest(i)
    /\ j = NextRequest(i)
    /\ j <= Len(log)
    /\ log[i].action = NoAction /\ log[j].action = NoAction
    /\ log[i].picked = log[j].picked
    /\ NextRequest(j) <= Len(log) \/ ~flushing

\* The OnActionInitiated events delivered to the actor of entry i from that
\* entry up to the request after entry j.
InitiatedBy(i, j) ==
    {k \in i..(NextRequest(j) - 1) :
        log[k].type = "OnActionInitiated" /\ log[k].entity = log[i].entity}

\* C5 as stated: two consecutive RequestAction(None) calls with the same
\* Picker.picked produce exactly one OnActionInitiated, from any state.
C5_ExactlyOneInitiated ==
    \A i, j \in 1..Len(log) :
        ConsecutiveRequests(i, j) => Cardinality(InitiatedBy(i, j)) = 1

\* C5 amended: two consecutive RequestAction(None) calls with the same
\* Picker.picked produce one OnActionInitiated if the actor's CurrentAction
\* at the first call is absent or differs from Picker.picked, and none if it
\* already equals Picker.picked; never two.
C5_AtMostOneInitiated ==
    \A i, j \in 1..Len(log) :
        ConsecutiveRequests(i, j) =>
            Cardinality(InitiatedBy(i, j)) = (IF log[i].cur = log[i].picked THEN 0 ELSE 1)

\* Two requests queued back to back for an actor without CurrentAction, one
\* OnActionInitiated delivered.
C5_Witness ==
    \E i, j \in 1..Len(log) :
        /\ ConsecutiveRequests(i, j)
        /\ j = i + 3
        /\ log[i].cur = NoAction
        /\ Cardinality(InitiatedBy(i, j)) = 1

\* C6: whenever a RequestAction is about to be handled, no CurrentAction
\* insertion and no OnActionInitiated of an earlier request for the same
\* actor is still pending in the command queue.
C6_NoPendingTransition ==
    (cmds # <<>> /\ Head(cmds).type = "RequestAction") =>
        \A k \in 1..Len(cmds) :
            cmds[k].entity = Head(cmds).entity =>
                cmds[k].type \notin {"InsertCurrentAction", "OnActionInitiated"}

\* A request at the head of the queue in the middle of a flush, right after
\* the OnActionInitiated of the request queued before it was delivered.
C6_Witness ==
    /\ flushing
    /\ cmds # <<>>
    /\ Head(cmds).type = "RequestAction"
    /\ log # <<>>
    /\ log[Len(log)].type = "OnActionInitiated"
    /\ log[Len(log)].entity = Head(cmds).entity

RECURSIVE RunningAfter(_, _)
\* For each action, how many times it has been initiated for actor and not
\* ended since, after the first n entries of the log.
RunningAfter(actor, n) ==
    IF n = 0 THEN [x \in Actions |-> 0]
    ELSE LET before == RunningAfter(actor, n - 1)
             e == log[n]
         IN IF e.entity # actor THEN before
            ELSE IF e.type = "OnActionInitiated"
                 THEN [before EXCEPT ![e.action] = @ + 1]
            ELSE IF e.type = "OnActionEnded" /\ before[e.action] > 0
                 THEN [before EXCEPT ![e.action] = @ - 1]
            ELSE before

\* The actions of actor that are active: initiated and not ended.
Running(actor) == {x \in Actions : RunningAfter(actor, Len(log))[x] > 0}

\* C7 as stated: in every flushed state an actor has a CurrentAction exactly
\* when it has an active action, one initiated and neither completed nor
\* cancelled since.
C7_CurrentActionIffActive ==
    ~flushing =>
        \A actor \in Actors :
            (currentAction[actor] # NoAction) <=> (Running(actor) # {})

\* C8: an OnActionEnded(Completed) delivered for an actor queues exactly one
\* RequestAction without explicit action for that actor, whatever the ended
\* action is; an OnActionEnded(Cancelled) queues nothing.
C8_CompletedRequestsAgain ==
    [][(cmds # <<>> /\ Head(cmds).type = "OnActionEnded" /\ log' # log) =>
          cmds' = (IF Head(cmds).reason = "Completed"
                   THEN <<Cmd("RequestAction", Head(cmds).entity, NoAction, "-")>>
                   ELSE <<>>) \o Tail(cmds)]_vars

\* An OnActionEnded(Completed) for an action that is not the actor's
\* CurrentAction was delivered, and the request it caused was handled next.
C8_Witness ==
    \E i \in 1..Len(log) :
        /\ i < Len(log)
        /\ log[i].type = "OnActionEnded" /\ log[i].reason = "Completed"
        /\ log[i].cur # NoAction /\ log[i].cur # log[i].action
        /\ IsApplied(i + 1, "RequestAction", log[i].entity, NoAction, "-")

\* C9: an actor never has more than one action initiated and not ended: an
\* OnActionInitiated for an actor with a running action comes after the
\* OnActionEnded of that action.
C9_AtMostOneRunning ==
    \A actor \in Actors :
        LET r == RunningAfter(actor, Len(log))
        IN /\ Cardinality(Running(actor)) <= 1
           /\ \A x \in Actions : r[x] <= 1

\* An action was initiated while another was running, which was cancelled
\* first; one action is running.
C9_Witness ==
    \E i \in 1..Len(log) :
        /\ i + 2 = Len(log)
        /\ log[i].type = "OnActionEnded" /\ log[i].reason = "Cancelled"
        /\ RunningAfter(log[i].entity, i - 1)[log[i].action] = 1
        /\ log[i + 2].type = "OnActionInitiated"
        /\ Running(log[i].entity) = {log[i + 2].action}

\* C10: a RequestAction handled for an actor with a Picker and no
\* CurrentAction queues the insertion of CurrentAction(requested) and one
\* OnActionInitiated(requested) and nothing else, requested being the explicit
\* action if given and Picker.picked otherwise; applying the insertion sets
\* CurrentAction to requested.
C10_InitiateFromNoAction ==
    [][/\ (/\ cmds # <<>>
           /\ Head(cmds).type = "RequestAction"
           /\ picker[Head(cmds).entity].has
           /\ currentAction[Head(cmds).entity] = NoAction
           /\ log' # log) =>
             LET actor == Head(cmds).entity
                 requested == IF Head(cmds).action # NoAction THEN Head(cmds).action
                              ELSE picker[actor].picked
             IN cmds' = <<Cmd("InsertCurrentAction", actor, requested, "-"),
                          Cmd("OnActionInitiated", actor, requested, "-")>>
                        \o Tail(cmds)
       /\ (/\ cmds # <<>>
           /\ Head(cmds).type = "InsertCurrentAction"
           /\ log' # log) =>
             currentAction'[Head(cmds).entity] = Head(cmds).action]_vars

\* Flushed requests on an actor without CurrentAction: one with an explicit
\* action other than Picker.picked, one that took Picker.picked after a pick.
C10_Witness ==
    /\ ~flushing
    /\ \E i \in 1..Len(log) :
         /\ i + 2 = Len(log)
         /\ IsRequest(i) /\ log[i].cur = NoAction
         /\ \/ log[i].action # NoAction /\ log[i].action # log[i].picked
            \/ log[i].action = NoAction /\ log[i].picked = "drink"
         /\ currentAction[log[i].entity] = Resolved(log[i])
         /\ log[i + 2].type = "OnActionInitiated"

\* C11: a RequestAction handled for an actor whose CurrentAction equals the
\* action the request resolves to queues no command (no OnActionEnded, no
\* OnActionInitiated, no insertion) and changes no component.
C11_SameActionNoOp ==
    [][(/\ cmds # <<>>
        /\ Head(cmds).type = "RequestAction"
        /\ picker[Head(cmds).entity].has
        /\ currentAction[Head(cmds).entity] # NoAction
        /\ currentAction[Head(cmds).entity] =
              (IF Head(cmds).action # NoAction THEN Head(cmds).action
               ELSE picker[Head(cmds).entity].picked)
        /\ log' # log) =>
          /\ cmds' = Tail(cmds)
          /\ UNCHANGED <<currentAction, picker, score, treeVars>>]_vars

\* A request with the explicit action that is already current, other than
\* Picker.picked, was handled last and the queue is empty.
C11_Witness ==
    /\ ~flushing
    /\ cmds = <<>>
    /\ log # <<>>
    /\ IsRequest(Len(log))
    /\ log[Len(log)].cur # NoAction
    /\ log[Len(log)].action = log[Len(log)].cur
    /\ log[Len(log)].picked # log[Len(log)].cur
    /\ currentAction[log[Len(log)].entity] = log[Len(log)].cur

\* C12: a RequestAction handled for an entity without a Picker, with or
\* without an explicit action, queues no command and leaves CurrentAction
\* as it was; such an entity never gets a CurrentAction.
C12_NoPickerNoOp ==
    [][(/\ cmds # <<>>
        /\ Head(cmds).type = "RequestAction"
        /\ ~picker[Head(cmds).entity].has
        /\ log' # log) =>
          /\ cmds' = Tail(cmds)
          /\ UNCHANGED <<currentAction, picker>>
          /\ currentAction[Head(cmds).entity] = NoAction]_vars

\* A request with an explicit action was handled last for an entity without
\* a Picker, and the queue is empty.
C12_Witness ==
    /\ ~flushing
    /\ cmds = <<>>
    /\ log # <<>>
    /\ log[Len(log)].type = "RequestAction"
    /\ log[Len(log)].action # NoAction
    /\ ~picker[log[Len(log)].entity].has
    /\ currentAction[log[Len(log)].entity] = NoAction
----------------------------------------------------------------------------
(* Properties of a pick run *)

\* An OnPick for actor e is about to be handled and e carries a Picker and
\* the policy of the given kind.
PickHandled(e, kind) ==
    /\ cmds # <<>>
    /\ Head(cmds).type = "OnPick"
    /\ Head(cmds).entity = e
    /\ picker[e].has
    /\ policy[e].kind = kind

\* The action the Picker of e resolves a child to: its entry in choices, or
\* the default.
ResolvedFor(e, child) ==
    IF child \in ChoiceKeys(picker[e]) THEN ChoiceOf(picker[e], child)
    ELSE picker[e].default

\* The positions in the child order of e of the children that carry Score.
ScoringPositions(e) == {i \in 1..Len(children[e]) : children[e][i] \in hasScore}

C15_Highest ==
    [][\A e \in Entities :
        PickHandled(e, "Highest") =>
            LET sp == ScoringPositions(e)
                best == {i \in sp : \A j \in sp :
                            score[children[e][j]] <= score[children[e][i]]}
            IN picker'[e].picked =
                 IF sp = {} THEN picker[e].default
                 ELSE ResolvedFor(e, children[e][CHOOSE i \in best :
                                                    \A j \in best : i <= j])]_vars

\* C15 for the actors that have children.
C15_HighestWithChildren ==
    [][\A e \in Entities :
        (PickHandled(e, "Highest") /\ children[e] # <<>>) =>
            LET sp == ScoringPositions(e)
                best == {i \in sp : \A j \in sp :
                            score[children[e][j]] <= score[children[e][i]]}
            IN picker'[e].picked =
                 IF sp = {} THEN picker[e].default
                 ELSE ResolvedFor(e, children[e][CHOOSE i \in best :
                                                    \A j \in best : i <= j])]_vars

\* C16 as stated: every OnPick handled for an actor by its picker policy
\* queues exactly one OnPicked targeted at the actor, carrying the action
\* just stored in Picker.picked.
C16_OnPickedOnce ==
    [][\A e \in Entities :
        (/\ cmds # <<>>
         /\ Head(cmds).type = "OnPick"
         /\ Head(cmds).entity = e
         /\ ObserverMatches(e)) =>
            cmds' = <<OnPickedCmd(e, picker'[e].picked)>> \o Tail(cmds)]_vars

\* C16 for the Highest and Random policies.
C16_OnPickedOnceHighestRandom ==
    [][\A e \in Entities :
        (/\ cmds # <<>>
         /\ Head(cmds).type = "OnPick"
         /\ Head(cmds).entity = e
         /\ ObserverMatches(e)
         /\ policy[e].kind # "FirstToScore") =>
            cmds' = <<OnPickedCmd(e, picker'[e].picked)>> \o Tail(cmds)]_vars

\* C17 as stated: a FirstToScore or Highest pick run on an actor with a
\* Picker and no scoring children, none at all or none with Score, leaves
\* Picker.picked equal to the default, whatever was picked before.
C17_NoScoringChildrenDefault ==
    [][\A e \in Entities :
        (/\ \/ PickHandled(e, "FirstToScore")
            \/ PickHandled(e, "Highest")
         /\ ScoringPositions(e) = {}) =>
            picker'[e].picked = picker[e].default]_vars

\* C17 for the actors that have children, none of which carries Score.
C17_ChildrenWithoutScore ==
    [][\A e \in Entities :
        (/\ \/ PickHandled(e, "FirstToScore")
            \/ PickHandled(e, "Highest")
         /\ children[e] # <<>>
         /\ ScoringPositions(e) = {}) =>
            picker'[e].picked = picker[e].default]_vars

----------------------------------------------------------------------------
(* Properties of the Picker across the lifecycle *)

\* The values of the choices map of a Picker.
ChoiceValues(p) == {c[2] : c \in p.choices}

\* C13: Picker.picked equals the default at construction and is always the
\* default or a value of choices; it changes only when an OnPick is handled,
\* and then to what Picker::pick(e) stores for some e: choices[e] if e is a
\* key, the default otherwise. No scoring command and no lifecycle command
\* changes it.
C13_PickedValid ==
    /\ \A e \in PickerEntities : picker[e].picked = picker[e].default
    /\ [](\A e \in PickerEntities :
            picker[e].picked \in {picker[e].default} \cup ChoiceValues(picker[e]))
    /\ [][\A e \in Entities :
            picker'[e] # picker[e] =>
              /\ cmds # <<>>
              /\ Head(cmds).type = "OnPick"
              /\ \E se \in Entities \cup {PLACEHOLDER} :
                   picker'[e] = [picker[e] EXCEPT !.picked =
                                   IF se \in ChoiceKeys(picker[e])
                                   THEN ChoiceOf(picker[e], se)
                                   ELSE picker[e].default]]_vars

\* After a scoring run, a pick run and lifecycle events: the picker went
\* from the default to a choice, and the picked action was initiated and has
\* ended.
C13_Witness ==
    /\ cmds = <<>>
    /\ scored # <<>>
    /\ picker[1].picked = "drink"
    /\ picker[1].picked # picker[1].default
    /\ currentAction[1] = "drink"
    /\ \E i \in 1..Len(log) : log[i].type = "OnActionEnded" /\ log[i].action = "drink"

----------------------------------------------------------------------------
(* Properties of the ancestor lookup *)

\* An OnScore at scorer s is being handled by score_ancestor, which looks up
\* the ancestor of s.
LookupStep(s) ==
    /\ cmds # <<>>
    /\ Head(cmds).type = "OnScore"
    /\ Head(cmds).entity = s
    /\ s \in hasScore \cap marker
    /\ cmds' = Tail(cmds)

\* C18 as stated: whatever lookups, insertions and removals of T and
\* re-parentings came before, AncestorQuery::get(start) returns the T of the
\* entity an uncached walk finds: the nearest entity on the parent chain of
\* start, start included, that carries T, or NotFound if there is none.
C18_SameAsUncachedWalk ==
    [][\A s \in Entities :
        LookupStep(s) =>
            /\ lookup'.start = s
            /\ lookup'.found = FindFrom(s)]_vars

\* C18 for the lookups made with no cache entry for start.
C18_UncachedLookup ==
    [][\A s \in Entities :
        (LookupStep(s) /\ cache[s] = PLACEHOLDER) =>
            /\ lookup'.start = s
            /\ lookup'.found = FindFrom(s)]_vars

\* C19: a lookup that finds the cached ancestor of start without T drops the
\* entry and walks the parent chain again; if the walk finds an entity, that
\* entity is returned and cached for start; if it finds none, the lookup
\* returns NotFound and the cache has no entry for start.
C19_EvictAndSearchAgain ==
    [][\A s \in Entities :
        (LookupStep(s) /\ cache[s] # PLACEHOLDER /\ cache[s] \notin hasT) =>
            /\ lookup'.start = s
            /\ lookup'.evicted
            /\ lookup'.found = FindFrom(s)
            /\ cache'[s] = FindFrom(s)
            /\ \A o \in Entities \ {s} : cache'[o] = cache[o]]_vars

\* The last lookup for the scorer dropped its cache entry, walked past its
\* parent, which carries no T, and found and cached its grandparent.
C19_Witness ==
    /\ cmds = <<>>
    /\ lookup.start = 1
    /\ lookup.evicted
    /\ ParentOf(children, 1) = 2
    /\ ParentOf(children, 2) = 3
    /\ hasT = {3}
    /\ lookup.found = 3
    /\ cache[1] = 3

\* C20: score_ancestor handling OnScore for an entity with the marker and a
\* Score writes the Score converted from the T of the ancestor the lookup
\* returned, and 0 when the lookup returned NotFound; for an entity without
\* the marker or without Score it changes no Score.
C20_ScoreAncestor ==
    [][\A s \in Entities :
        (cmds # <<>> /\ Head(cmds).type = "OnScore" /\ Head(cmds).entity = s
            /\ cmds' = Tail(cmds)) =>
            IF s \in hasScore /\ s \in marker
            THEN /\ lookup'.start = s
                 /\ lookup'.found # PLACEHOLDER =>
                        /\ lookup'.found \in hasT
                        /\ score'[s] = Clamp(TValueOf(lookup'.found))
                 /\ lookup'.found = PLACEHOLDER => score'[s] = 0
                 /\ \A o \in Entities \ {s} : score'[o] = score[o]
            ELSE score' = score]_vars

\* score_ancestor wrote the Score of the scorer from the T of an ancestor
\* other than its parent, whose value lies above the maximum Score.
C20_Witness ==
    /\ cmds = <<>>
    /\ lookup.start = 1
    /\ lookup.found # PLACEHOLDER
    /\ lookup.found # ParentOf(children, 1)
    /\ TValueOf(lookup.found) > Scale
    /\ score[1] = Scale

----------------------------------------------------------------------------
(* Properties of the one-time registration *)

\* Kind k has been added to some entity.
KindUsed(k) == \E i \in DOMAIN log : log[i].type = "Insert" /\ log[i].action = k

\* A Once command of kind k waits in the queue.
OncePending(k) == \E i \in DOMAIN cmds : cmds[i].type = "Once" /\ cmds[i].action = k

\* A Once command of kind k has been applied.
OnceApplied(k) == \E i \in DOMAIN log : log[i].type = "Once" /\ log[i].action = k

\* C21: the observer of a kind is installed by the first Once command of
\* that kind and never again: a kind has one observer when a Once command
\* of it has been applied and none otherwise, whatever the number of
\* additions; once every queued Once command of a used kind is applied the
\* kind has exactly one observer, and a kind never added has none.
C21_OneObserverPerKind ==
    \A k \in Kinds :
        /\ observers[k] = IF OnceApplied(k) THEN 1 ELSE 0
        /\ (KindUsed(k) /\ ~OncePending(k)) => observers[k] = 1
        /\ ~KindUsed(k) => observers[k] = 0

\* Two additions of one kind were queued before either Once command was
\* applied, both have been applied, and the kind has a single observer,
\* while a kind never added has none.
C21_Witness ==
    /\ Len(log) = 4
    /\ log[1].type = "Insert" /\ log[2].type = "Insert"
    /\ log[1].action = log[2].action
    /\ log[1].entity # log[2].entity
    /\ log[3].type = "Once" /\ log[4].type = "Once"
    /\ cmds = <<>>
    /\ observers[log[1].action] = 1
    /\ \E k \in Kinds : ~KindUsed(k) /\ observers[k] = 0

----------------------------------------------------------------------------
(* Properties of the aggregators *)

\* C22: in every reachable state the Score of every entity, as written by
\* Score::new, Score::set and the built-in aggregators over children whose
\* Scores are in [0,1], lies in [0,1].
C22_ScoreInRange == \A e \in hasScore : score[e] \in 0..Scale


\* Every Score is in [0,1] or NaN, and NaN is the Score of an Evaluated node
\* only, whose curve has a.x = b.x.
C22_InRangeUnlessDegenerateCurve ==
    \A e \in hasScore :
        \/ score[e] \in 0..Scale
        \/ /\ score[e] = NaN
           /\ agg[e].kind = "Evaluated"
           /\ settings[e].lo = settings[e].hi

----------------------------------------------------------------------------
(* Properties of the untargeted run *)

\* Entity p has entity e among its children.
IsParentOf(p, e) == \E i \in DOMAIN children[p] : children[p][i] = e

\* C23: the traversal roots of an untargeted RunScoring are exactly the
\* entities carrying Score that have no parent or whose parent does not carry
\* Score, each taken once; a Score entity whose parent carries Score is not
\* a root.
C23_UntargetedRoots ==
    (run.handled /\ run.target = PLACEHOLDER) =>
        /\ {run.roots[i] : i \in DOMAIN run.roots}
              = {e \in hasScore : \A p \in Entities : IsParentOf(p, e) => p \notin hasScore}
        /\ \A i, j \in DOMAIN run.roots : run.roots[i] = run.roots[j] => i = j
        /\ \A i \in DOMAIN run.roots :
              \A p \in hasScore : ~IsParentOf(p, run.roots[i])

\* An untargeted run took a parentless Score entity and a Score entity under
\* a parent without Score as roots, and left out a Score entity whose parent
\* carries Score.
C23_Witness ==
    /\ run.handled
    /\ run.target = PLACEHOLDER
    /\ cmds = <<>>
    /\ \E a, b, c \in hasScore :
         /\ \A p \in Entities : ~IsParentOf(p, a)
         /\ \E p \in Entities \ hasScore : IsParentOf(p, b)
         /\ \E p \in hasScore : IsParentOf(p, c)
         /\ \E i, j \in DOMAIN run.roots : run.roots[i] = a /\ run.roots[j] = b
         /\ \A i \in DOMAIN run.roots : run.roots[i] # c

----------------------------------------------------------------------------
(* Properties of one traversal and of its restart *)

RECURSIVE PostOrderOf(_)
RECURSIVE PostOrderOfAll(_)
\* The post-order of the hierarchy under e: the post-orders of the children
\* of e, in child order, when e carries Score, and then e.
PostOrderOf(e) ==
    (IF e \in hasScore THEN PostOrderOfAll(children[e]) ELSE <<>>) \o <<e>>

\* The post-orders of a sequence of entities, one after the other.
PostOrderOfAll(kids) ==
    IF kids = <<>> THEN <<>>
    ELSE PostOrderOf(Head(kids)) \o PostOrderOfAll(Tail(kids))

\* Sequence s is the beginning of sequence t.
IsPrefix(s, t) == Len(s) <= Len(t) /\ SubSeq(t, 1, Len(s)) = s

\* The elements of a sequence.
Elements(s) == {s[i] : i \in DOMAIN s}

\* What holds of an iterator in every state: it has yielded a beginning of
\* the post-order of its root, its queue holds only entities of that
\* post-order not yielded yet, and once next has returned None the whole
\* post-order has been yielded and the queue is empty.
TraversalOfRoot ==
    iter.root # PLACEHOLDER =>
        /\ IsPrefix(sorted, PostOrderOf(iter.root))
        /\ {queue[i][2] : i \in DOMAIN queue}
              \subseteq Elements(PostOrderOf(iter.root)) \ Elements(sorted)
        /\ ~iter.active => (queue = <<>> /\ sorted = PostOrderOf(iter.root))

\* A call of next on the same iterator yields one more entity or returns
\* None.
NextProgresses ==
    (iter.active /\ iter'.root = iter.root /\ iter'.restarted = iter.restarted
        /\ sorted' # <<>>)
        => (Len(sorted') = Len(sorted) + 1 \/ (~iter'.active /\ sorted' = sorted))

\* C24: on a finite acyclic hierarchy dfs.iter(root) yields finitely many
\* entities, every call of next yielding one more entity of the post-order
\* of root or returning None, after which the queue is empty; this holds as
\* well of an iterator started on a new root after an earlier one was
\* abandoned part-way: it yields exactly the post-order of the new root and
\* its queue holds no entry of the earlier root.
C24_FiniteAndRestartable == []TraversalOfRoot /\ [][NextProgresses]_vars

\* An iterator of another root was abandoned after it had yielded an entity
\* and before it was exhausted; the iterator started then on the new root
\* has yielded the new root's descendants and the root and returned None.
C24_Witness ==
    /\ iter.restarted
    /\ ~iter.active
    /\ Len(sorted) >= 3
    /\ queue = <<>>

----------------------------------------------------------------------------
(* Properties of scoring followed by picking *)

\* The step delivers the OnPick trigger at the head of the queue.
OnPickDelivered == cmds # <<>> /\ Head(cmds).type = "OnPick" /\ cmds' # cmds

\* C26: when RunScoring and then RunPicking are triggered in that order,
\* every OnPick of the pick run is handled after every OnScore of the scoring
\* run: when an OnPick is delivered the scoring run has been handled, no
\* OnScore waits in the queue, OnScore has been delivered to every scoring
\* entity, and every Score holds the value the run gives it.
C26_PickAfterScore ==
    [][OnPickDelivered =>
          /\ run.handled
          /\ \A i \in DOMAIN cmds : cmds[i].type \notin {"RunScoring", "OnScore"}
          /\ Elements(scored) = hasScore
          /\ \A e \in RealtimeScorers : score[e] = agg[e].param]_vars

\* After the first score_and_pick, FirstToScore has picked the action of the
\* first child, whose Score reached the threshold only through this scoring
\* run, and the queue is empty.
C26_Witness ==
    /\ externals = 1
    /\ policy[1].kind = "FirstToScore"
    /\ Elements(scored) = RealtimeScorers
    /\ score[2] >= policy[1].threshold
    /\ picker[1].picked = "drink"
    /\ cmds = <<>>


\* The step delivers the OnScore trigger at the head of the queue.
OnScoreDelivered == cmds # <<>> /\ Head(cmds).type = "OnScore" /\ cmds' # cmds

\* The aggregators that read the Scores of their children.
ChildReading == {"Sum", "AllOrNothing", "Product", "Winning", "Measured", "Evaluated"}

\* The target of the OnScore trigger at the head of the queue has an
\* aggregator but no Score, or a child-reading aggregator but no children.
ScoreOrChildrenMissing ==
    LET e == Head(cmds).entity IN
    /\ agg[e].kind # "None"
    /\ \/ e \notin hasScore
       \/ agg[e].kind \in ChildReading /\ children[e] = <<>>

\* The flush has stopped at a panic.
Panicked == cmds # <<>> /\ Head(cmds).type = "Panic"

\* C25: handling OnScore at a node whose aggregator is configured but which
\* has no Score, or whose child-reading aggregator has no children, changes
\* no Score of any entity and raises no error.
C25_MissingScoreOrChildrenNoOp ==
    [][(OnScoreDelivered /\ ScoreOrChildrenMissing)
          => (score' = score /\ ~Panicked')]_vars

\* Handling OnScore at such a node changes no Score, and it panics only in
\* an Evaluated node without Score whose power curve has a.x > b.x.
C25_NoScoreChange ==
    [][(OnScoreDelivered /\ ScoreOrChildrenMissing)
          => /\ score' = score
             /\ Panicked' => /\ agg[Head(cmds).entity].kind = "Evaluated"
                             /\ settings[Head(cmds).entity].evaluator = "Power"
                             /\ settings[Head(cmds).entity].lo
                                   > settings[Head(cmds).entity].hi]_vars

----------------------------------------------------------------------------
(* Properties of repeated and reordered runs *)

RECURSIVE SetSum(_, _)
\* The sum of f over a set of entities, taken in no particular order.
SetSum(S, f) ==
    IF S = {} THEN 0
    ELSE LET x == CHOOSE y \in S : TRUE IN f[x] + SetSum(S \ {x}, f)

RECURSIVE TreeScore(_)
\* The Score of e as the tree, the aggregators and the leaves alone give it:
\* the value of a Fixed; for a Sum(t) with children the sum s of the
\* TreeScore of its scoring children, clamped, when s >= t and 0 otherwise;
\* and 0, the Score every entity is spawned with, for a Sum without children.
TreeScore(e) ==
    CASE agg[e].kind = "Fixed" -> agg[e].param
      [] agg[e].kind = "Sum" /\ children[e] # <<>> ->
            LET s == SetSum(Elements(children[e]) \cap hasScore,
                            [c \in Entities |-> IF c \in Elements(children[e]) \cap hasScore
                                                THEN TreeScore(c) ELSE 0])
            IN IF s >= agg[e].param THEN (IF s > Scale THEN Scale ELSE s) ELSE 0
      [] OTHER -> 0

\* C27: for a fixed tree, aggregator configuration and leaf Scores, the
\* Scores after a RunScoring are those the tree alone determines, whatever
\* the order in which the roots and the siblings were visited; and a second
\* RunScoring right after the first leaves every Score unchanged: the
\* observers of OnScore, run again for any entity of the run, reproduce the
\* Scores as they are.
C27_OrderIndependentIdempotent ==
    RunFlushed =>
        /\ \A e \in RunEntities \cap hasScore : score[e] = TreeScore(e)
        /\ \A e \in RunEntities : ScoreOutcomes(e, score) = {score}

\* An untargeted run has been flushed; its two roots were visited in
\* descending order; one of them is a Sum over two scoring children, with a
\* Score above 0.
C27_Witness ==
    /\ RunFlushed
    /\ run.target = PLACEHOLDER
    /\ Len(run.roots) = 2
    /\ run.roots[1] > run.roots[2]
    /\ \E r \in Elements(run.roots) :
         /\ agg[r].kind = "Sum"
         /\ Len(children[r]) = 2
         /\ Elements(children[r]) \subseteq hasScore
         /\ score[r] > 0

----------------------------------------------------------------------------
(* Properties of the Random picker *)

\* What a Random pick may store: any value of the choices, the default when
\* there are none.
RandomMayPick(p) == IF p.choices = {} THEN {p.default} ELSE ChoiceValues(p)

\* The actions PickRandom::observer::run stores in picked over everything the
\* generator may choose.
RandomPickedOutcomes(target) ==
    {RandomRun(target, rnd[target]).picker.picked : rnd \in RandomKeys}

\* An OnPick that reaches the Random actor waits at the head of the queue.
RandomPickPending ==
    /\ cmds # <<>>
    /\ Head(cmds).type = "OnPick"
    /\ Head(cmds).entity \in Actors \cup {PLACEHOLDER}

\* A Random pick of the actor stores one of the values of the choices (the
\* default when there are none) and leaves choices and default alone.
RandomPickStoresChoiceValue ==
    RandomPickPending /\ cmds' # cmds =>
        /\ picker'[1].picked \in RandomMayPick(picker[1])
        /\ picker'[1].choices = picker[1].choices
        /\ picker'[1].default = picker[1].default

\* C28: the actions a Random pick may store in picked are exactly the values
\* of the Picker's choices map, the default when the map is empty, whatever
\* the Scores of the children and whichever entities are children of the
\* actor: every such action can be stored, and every pick stores one of them.
C28_RandomPicksChoiceValues ==
    /\ [](RandomPickPending => RandomPickedOutcomes(1) = RandomMayPick(picker[1]))
    /\ [][RandomPickStoresChoiceValue]_vars

\* A Random pick has stored "drink", the value of a key that is not a child
\* of the actor, while the only child, with the highest Score, is mapped to
\* "idle".
C28_Witness ==
    /\ cmds = <<>>
    /\ picker[1].picked = "drink"
    /\ children[1] = <<2>>
    /\ 2 \in hasScore /\ score[2] = Scale
    /\ ChoiceOf(picker[1], 2) = "idle"
    /\ \E c \in picker[1].choices : c[1] # 2 /\ c[2] = "drink"

----------------------------------------------------------------------------
(* Properties of the Sum and AllOrNothing aggregators *)

\* The children of e that carry a Score.
ScoringChildSet(e) == Elements(children[e]) \cap hasScore

\* The sum of the Scores of the scoring children of e, not clamped.
ChildSum(e) == SetSum(ScoringChildSet(e), score)

\* The OnScore trigger at the head of the queue is delivered to an entity
\* that has the given aggregator, a Score and children.
Aggregates(kind) ==
    /\ OnScoreDelivered
    /\ Head(cmds).entity \in hasScore
    /\ agg[Head(cmds).entity].kind = kind
    /\ children[Head(cmds).entity] # <<>>

\* What C29 says of one delivery.
SumWritesSumOrZero ==
    Aggregates("Sum") =>
        LET e == Head(cmds).entity
            s == ChildSum(e)
        IN score' = [score EXCEPT ![e] = IF s >= agg[e].param
                                         THEN (IF s > Scale THEN Scale ELSE s)
                                         ELSE 0]

\* C29: when OnScore is delivered to a Sum(t) that has a Score and children,
\* the Score written is s clamped to [0,1] if the sum s of the Scores of its
\* scoring children, not clamped, is at least t, and 0 otherwise; no other
\* Score changes.
C29_SumThreshold == [][SumWritesSumOrZero]_vars

\* Sum(0.5) over two children of Score 1 has been scored: the sum, twice the
\* maximum, has been written clamped to 1.
C29_Witness ==
    /\ cmds = <<>>
    /\ run.handled
    /\ agg[AggParent].kind = "Sum"
    /\ agg[AggParent].param > 0
    /\ agg[AggParent].param < Scale
    /\ AggParent \in hasScore
    /\ Len(children[AggParent]) = 2
    /\ \A c \in Elements(children[AggParent]) : c \in hasScore /\ score[c] = Scale
    /\ ChildSum(AggParent) = 2 * Scale
    /\ score[AggParent] = Scale
    /\ Len(scored) > 0
    /\ scored[Len(scored)] = AggParent


\* What C30 says of one delivery.
AllOrNothingWritesZeroOrSum ==
    Aggregates("AllOrNothing") =>
        LET e == Head(cmds).entity
            s == ChildSum(e)
        IN score' = [score EXCEPT ![e] =
                        IF \E c \in ScoringChildSet(e) : score[c] < agg[e].param
                        THEN 0
                        ELSE (IF s > Scale THEN Scale ELSE s)]

AllOrNothingWritesSumIfReached ==
    Aggregates("AllOrNothing") =>
        LET e == Head(cmds).entity
            s == ChildSum(e)
        IN score' = [score EXCEPT ![e] = IF s >= agg[e].param
                                         THEN (IF s > Scale THEN Scale ELSE s)
                                         ELSE 0]

\* C31: when OnScore is delivered to an AllOrNothing(t) that has a Score and
\* children, the Score written is the sum of the Scores of its scoring
\* children, clamped, if that sum reaches t, and 0 otherwise: the threshold
\* is a threshold on the sum.
C31_AllOrNothingSumThreshold == [][AllOrNothingWritesSumIfReached]_vars

----------------------------------------------------------------------------
(* Properties of the Product, Measured and Evaluated aggregators *)

RECURSIVE SetProd(_, _)
\* The product of f over a set of entities, taken in no particular order.
SetProd(S, f) ==
    IF S = {} THEN 1
    ELSE LET x == CHOOSE y \in S : TRUE IN f[x] * SetProd(S \ {x}, f)

\* An OnScore trigger waits at the head of the queue for an entity that has
\* the given aggregator, a Score and children.
AggregatePending(kind) ==
    /\ cmds # <<>>
    /\ Head(cmds).type = "OnScore"
    /\ Head(cmds).entity \in hasScore
    /\ agg[Head(cmds).entity].kind = kind
    /\ children[Head(cmds).entity] # <<>>

\* What C32 says a Product writes, as an exact fraction: with P the product
\* of the n scoring children's Scores in units of 1/Scale^n, p = P / Scale^n,
\* replaced by p + (1-p)*(1-1/n)*p under compensation, and by 0 when it is
\* below the threshold.
ProductClaimed(e) ==
    LET n == Cardinality(ScoringChildSet(e))
        d == Power(Scale, n)
        P == SetProd(ScoringChildSet(e), score)
        q == IF settings[e].use_compensation /\ n > 0
             THEN [num |-> P * n * d + (d - P) * (n - 1) * P, den |-> n * d * d]
             ELSE [num |-> P, den |-> d]
    IN IF q.num * Scale >= agg[e].param * q.den THEN q ELSE [num |-> 0, den |-> 1]

\* The value the observer hands to Score::set is the one claimed.
ProductComputesClaimed ==
    AggregatePending("Product") =>
        LET e == Head(cmds).entity
        IN ProductKept(e, score).num * ProductClaimed(e).den
               = ProductClaimed(e).num * ProductKept(e, score).den

\* The Score written is the claimed value, to the resolution of a Score.
ProductWritesClaimed ==
    Aggregates("Product") =>
        LET e == Head(cmds).entity
        IN score' = [score EXCEPT
                        ![e] = (ProductClaimed(e).num * Scale) \div ProductClaimed(e).den]

ClaimedWeight(c) == IF settings[c].weighted THEN settings[c].weight ELSE Scale

\* The sum of score * weight over the scoring children of e, in units of
\* 1 / Scale^2.
ClaimedWeightedSum(e) ==
    SetSum(ScoringChildSet(e), [c \in Entities |-> score[c] * ClaimedWeight(c)])

\* An OnScore trigger waits for a Measured(WeightedSum) with Score and
\* children: the sum its measure computes is the claimed one.
WeightedSumComputesClaimed ==
    AggregatePending("Measured") /\ settings[Head(cmds).entity].measure = "WeightedSum" =>
        WeightedSumOf(ScoringChildren(Head(cmds).entity), score)
            = ClaimedWeightedSum(Head(cmds).entity)

\* The Score written is the claimed sum clamped, at the resolution of a Score.
WeightedSumWritesClaimed ==
    Aggregates("Measured") /\ settings[Head(cmds).entity].measure = "WeightedSum" =>
        LET e == Head(cmds).entity
            s == ClaimedWeightedSum(e) \div Scale
        IN score' = [score EXCEPT ![e] = IF s > Scale THEN Scale ELSE s]

\* C33: a Measured node with a Score and children pairs the Score of each
\* scoring child with the weight of the child's Weighted, or with 1.0 if the
\* child has none; with WeightedSum it writes the sum of score * weight over
\* those pairs, clamped to [0,1]; no other Score changes.
C33_MeasuredWeightedSum ==
    []WeightedSumComputesClaimed /\ [][WeightedSumWritesClaimed]_vars

\* Measured(WeightedSum) has been scored over a child of Score 1 with
\* Weighted 0.5 and a child of Score 0.5 without Weighted: 0.5 * 1.0 + 1 * 0.5
\* = 1.0 has been written.
C33_Witness ==
    /\ cmds = <<>>
    /\ run.handled
    /\ agg[AggParent].kind = "Measured"
    /\ settings[AggParent].measure = "WeightedSum"
    /\ AggParent \in hasScore
    /\ children[AggParent] = <<2, 3>>
    /\ {2, 3} \subseteq hasScore
    /\ settings[2].weighted /\ settings[2].weight < Scale /\ settings[2].weight > 0
    /\ score[2] = Scale
    /\ ~settings[3].weighted
    /\ score[3] > 0 /\ score[3] < Scale
    /\ score[AggParent] = (score[2] * settings[2].weight + score[3] * Scale) \div Scale
    /\ score[AggParent] > 1
    /\ Len(scored) > 0
    /\ scored[Len(scored)] = AggParent


\* The curve of from_range(lo, hi) with lo < hi at the value v, clamped to
\* [0,1], at the resolution of a Score: the line through (lo, 0) and (hi, 1),
\* or its square for the power curve of exponent 2.
ClaimedCurve(evaluator, lo, hi, v) ==
    LET x == IF v < lo THEN 0 ELSE IF v > hi THEN hi - lo ELSE v - lo
    IN IF evaluator = "Linear" THEN (x * Scale) \div (hi - lo)
       ELSE (x * x * Scale) \div ((hi - lo) * (hi - lo))

\* The Evaluated entity e has exactly one child, and that child has a Score.
SingleScoringChild(e) == Len(children[e]) = 1 /\ children[e][1] \in hasScore

\* What C34 says of one delivery.
EvaluatedWritesCurve ==
    (/\ OnScoreDelivered
     /\ Head(cmds).entity \in hasScore
     /\ agg[Head(cmds).entity].kind = "Evaluated") =>
        LET e == Head(cmds).entity
        IN IF SingleScoringChild(e)
           THEN /\ ~Panicked'
                /\ score'[e] \in 0..Scale
                /\ \A o \in Entities \ {e} : score'[o] = score[o]
                /\ settings[e].lo < settings[e].hi =>
                      score'[e] = ClaimedCurve(settings[e].evaluator, settings[e].lo,
                                               settings[e].hi, score[children[e][1]])
           ELSE score' = score

\* C34: when OnScore is delivered to an Evaluated node that has a Score, the
\* node writes its curve at the child's Score, clamped to [0,1], if it has
\* exactly one child and that child has a Score; with no children, more than
\* one child or a single child without Score, every Score is left as it is.
C34_EvaluatedSingleChild == [][EvaluatedWritesCurve]_vars

\* The same for the curves whose range is not empty and not reversed, which
\* are the only ones that neither yield NaN nor panic.
C34_CurveWhenRangeProper ==
    [][(/\ cmds # <<>>
        /\ Head(cmds).entity \in Entities
        /\ settings[Head(cmds).entity].lo < settings[Head(cmds).entity].hi)
          => EvaluatedWritesCurve]_vars

----------------------------------------------------------------------------
(* Properties of the action lifecycle after an action has ended *)

\* The command applied last is OnActionEnded(Completed) for the action that
\* is the CurrentAction of actor, which has a Picker.
CompletedCurrent(actor) ==
    /\ log # <<>>
    /\ log[Len(log)].type = "OnActionEnded"
    /\ log[Len(log)].reason = "Completed"
    /\ log[Len(log)].entity = actor
    /\ picker[actor].has
    /\ log[Len(log)].cur # NoAction
    /\ log[Len(log)].action = log[Len(log)].cur

\* The command applied last is an OnActionInitiated for actor.
InitiatedNow(actor) ==
    /\ log # <<>>
    /\ log[Len(log)].type = "OnActionInitiated"
    /\ log[Len(log)].entity = actor

\* C35: once OnActionEnded(Completed) has been delivered for the current
\* action of an actor, an OnActionInitiated is eventually emitted for that
\* actor, whatever Picker.picked is, the completed action included.
C35_CompletedLeadsToInitiated ==
    \A actor \in Actors : CompletedCurrent(actor) ~> InitiatedNow(actor)

\* The same when Picker.picked is another action than the completed one: it
\* is only the re-request for the action still named by CurrentAction that
\* starts nothing.
C35_InitiatedWhenPickedDiffers ==
    \A actor \in Actors :
        (CompletedCurrent(actor) /\ picker[actor].picked # log[Len(log)].action)
            ~> InitiatedNow(actor)


\* Log entry k is an OnActionEnded(Cancelled) emitted by
\* on_request_cancel_and_initiate: it follows the RequestAction that queued it.
CancelledByManager(k) ==
    /\ k > 1
    /\ log[k].type = "OnActionEnded"
    /\ log[k].reason = "Cancelled"
    /\ log[k - 1].type = "RequestAction"
    /\ log[k - 1].entity = log[k].entity
    /\ log[k - 1].cur = log[k].action

\* Log entry i is an OnActionEnded(Completed) for the action that was the
\* CurrentAction of its actor.
CompletedAt(i) ==
    /\ log[i].type = "OnActionEnded"
    /\ log[i].reason = "Completed"
    /\ log[i].cur # NoAction
    /\ log[i].action = log[i].cur

\* C36: an action instance that has completed is not cancelled afterwards:
\* between an OnActionEnded(Completed) delivered for the current action of an
\* actor and an OnActionEnded(Cancelled) the lifecycle manager emits for the
\* same action of that actor, the action has been initiated again.
C36_EndedAtMostOnce ==
    \A i, k \in 1..Len(log) :
        (/\ i < k
         /\ CompletedAt(i)
         /\ CancelledByManager(k)
         /\ log[k].entity = log[i].entity
         /\ log[k].action = log[i].action) =>
            \E j \in (i + 1)..(k - 1) :
                IsApplied(j, "OnActionInitiated", log[i].entity, log[i].action, "-")


\* Log entry r is a RequestAction that makes its actor switch: the actor has
\* a CurrentAction and the request resolves to another action.
Switch(r) ==
    /\ IsRequest(r)
    /\ log[r].cur # NoAction
    /\ Resolved(log[r]) # log[r].cur

\* C37: in an action switch the OnActionEnded(Cancelled) of the old action
\* is delivered while CurrentAction still names the old action; the next
\* command applied replaces CurrentAction; and the one after that is the
\* OnActionInitiated of the new action, delivered when CurrentAction already
\* equals it. Every OnActionInitiated(a) is delivered with CurrentAction a,
\* and every OnActionEnded(Cancelled) that follows a switching request with
\* CurrentAction the action it cancels.
C37_SwitchOrder ==
    /\ \A r \in 1..Len(log) :
         Switch(r) =>
            /\ ~flushing => Len(log) >= r + 3
            /\ Len(log) >= r + 1 =>
                  /\ log[r + 1].type = "OnActionEnded"
                  /\ log[r + 1].reason = "Cancelled"
                  /\ log[r + 1].action = log[r].cur
                  /\ log[r + 1].cur = log[r].cur
            /\ Len(log) >= r + 2 =>
                  /\ log[r + 2].type = "InsertCurrentAction"
                  /\ log[r + 2].cur = log[r].cur
                  /\ log[r + 2].action = Resolved(log[r])
            /\ Len(log) >= r + 3 =>
                  /\ log[r + 3].type = "OnActionInitiated"
                  /\ log[r + 3].action = Resolved(log[r])
                  /\ log[r + 3].cur = Resolved(log[r])
    /\ \A k \in 1..Len(log) :
         log[k].type = "OnActionInitiated" => log[k].cur = log[k].action

\* A switch from drink to idle has been flushed: the cancellation of drink
\* was delivered with CurrentAction drink, the initiation of idle with
\* CurrentAction idle.
C37_Witness ==
    /\ ~flushing
    /\ Len(log) >= 4
    /\ Switch(Len(log) - 3)
    /\ log[Len(log) - 2].action = "drink"
    /\ log[Len(log) - 2].cur = "drink"
    /\ log[Len(log)].type = "OnActionInitiated"
    /\ log[Len(log)].action = "idle"
    /\ log[Len(log)].cur = "idle"
    /\ currentAction[log[Len(log)].entity] = "idle"

----------------------------------------------------------------------------
(* Properties of the request system of the real-time lifecycle *)

\* request_action_if_none_or_default runs in this step: a host step that
\* queues nothing but RequestAction triggers.
RequestSystemRuns ==
    /\ cmds = <<>>
    /\ externals' = externals + 1
    /\ \A k \in 1..Len(cmds') : cmds'[k].type = "RequestAction"

\* The actors C38 says get a request: those with a Picker and no
\* CurrentAction, or a CurrentAction equal to the default of their Picker.
Idling ==
    {e \in Entities : /\ picker[e].has
                      /\ \/ currentAction[e] = NoAction
                         \/ currentAction[e] = picker[e].default}

\* C38: when request_action_if_none_or_default runs, it queues one
\* RequestAction without explicit action for each actor with a Picker that
\* has no CurrentAction or whose CurrentAction is the default of its Picker,
\* and nothing else: an actor whose CurrentAction is another action gets no
\* request, whatever its Picker.picked.
C38_RequestOnlyWhenIdle ==
    [][RequestSystemRuns =>
          /\ \A k \in 1..Len(cmds') :
                /\ cmds'[k].action = NoAction
                /\ cmds'[k].entity \in Idling
          /\ \A e \in Idling :
                Cardinality({k \in 1..Len(cmds') : cmds'[k].entity = e}) = 1]_vars

\* The system has just run as the first host step: actor 1, whose
\* CurrentAction drink is neither the default nor what its Picker picked
\* last, got no request; actor 2, which has no CurrentAction, got one.
C38_Witness ==
    /\ externals = 1
    /\ log = <<>>
    /\ cmds = <<Cmd("RequestAction", 2, NoAction, "-")>>
    /\ picker[1].has
    /\ currentAction[1] = "drink"
    /\ picker[1].picked = "idle"
    /\ picker[2].has
    /\ currentAction[2] = NoAction

----------------------------------------------------------------------------
(* Properties of a targeted scoring run *)

\* C39: a RunScoring targeted at e scores e as a root, whatever its parent:
\* every OnScore of the run is delivered to e or to an entity reached from e
\* through the children of entities carrying Score, each of them gets one by
\* the end of the run, and the Score of no entity outside that subtree, the
\* ancestors and siblings of e included, changes during the run.
C39_TargetedRunStaysInSubtree ==
    /\ [](run.handled /\ run.target # PLACEHOLDER =>
            /\ \A k \in 1..Len(scored) : scored[k] \in ScoredSubtree(run.target)
            /\ \A k \in 1..Len(cmds) :
                  cmds[k].type = "OnScore" => cmds[k].entity \in ScoredSubtree(run.target)
            /\ cmds = <<>> => \A e \in ScoredSubtree(run.target) : TimesScored(e) = 1)
    /\ [][(run.handled /\ run.target # PLACEHOLDER /\ OnScoreDelivered) =>
            \A o \in Entities \ ScoredSubtree(run.target) : score'[o] = score[o]]_vars

\* A run targeted at a Fixed entity with a Sum parent and a Fixed sibling
\* has been flushed: the target holds its value, while the sibling and the
\* parent, which the run did not score, still hold 0, although the sibling's
\* value is above 0 and the parent's sum would be too.
C39_Witness ==
    /\ RunFlushed
    /\ run.target # PLACEHOLDER
    /\ \E p, s \in hasScore :
         /\ ParentOf(children, run.target) = p
         /\ ParentOf(children, s) = p
         /\ s # run.target
         /\ agg[p].kind = "Sum"
         /\ agg[run.target].kind = "Fixed"
         /\ agg[s].kind = "Fixed" /\ agg[s].param > 0
         /\ score[run.target] > 0
         /\ score[s] = 0
         /\ score[p] = 0
         /\ AggregatorFormula(p, score) > 0
         /\ scored = <<run.target>>

----------------------------------------------------------------------------
(* Properties of the working queue of the traversal *)

\* The iterator as the next call of next finds it.
IterState == [queue |-> queue, visited |-> iter.visited,
              current_depth |-> iter.current_depth]

\* C40: whenever next can be called on a live iterator whose queue is not
\* empty, every insertion of the call has an index i + j + 1 that is at most
\* the length of the queue at that moment, and after the loop the cursor
\* satisfies 1 <= visited <= length of the queue, so that visited - 1 does
\* not underflow and the removal returns an entry.
C40_QueueAccessInBounds ==
    (iter.active /\ queue # <<>>) =>
        /\ \A p \in QueueInserts(IterState) : p[1] <= p[2]
        /\ ExpandBranch(IterState).visited >= 1
        /\ ExpandBranch(IterState).visited <= Len(ExpandBranch(IterState).queue)
        /\ IterNext(IterState).item # PLACEHOLDER

\* A call of next on a live iterator that inserts children in front of
\* entries still waiting in the queue (its insertion index is below the
\* length of the queue), and then removes an entry behind the front.
C40_Witness ==
    /\ iter.active
    /\ queue # <<>>
    /\ \E p \in QueueInserts(IterState) : p[1] < p[2]
    /\ ExpandBranch(IterState).visited >= 3
    /\ IterNext(IterState).item \in Entities
====
